---- MODULE Spec2Model ----
(***************************************************************************)
(* aero-curves: the point-set geometry engine, the snapping and clamping   *)
(* primitives, the drag protocol of the Plot component and the application *)
(* reducer with its undo history.                                          *)
(*                                                                         *)
(* Numbers.  Coordinates are JavaScript numbers in the program.  Here a    *)
(* coordinate is an integer number of grid units; sums and differences are *)
(* exact, and the division and multiplication of snapValue round to the    *)
(* FloatBits significand bits a number has.                                *)
(* A snap precision is a JavaScript number that may be NaN or infinite, so *)
(* it is a record [kind, v]: kind "num" with value v, kind "nan", or kind  *)
(* "inf" with sign v.                                                      *)
(*                                                                         *)
(* Ids.  A point id is a string in the program: `p_<n>` from the reducer's *)
(* counter, `pt_<n>` from the Plot component's counter, a random UUID from *)
(* crypto.randomUUID, or `pt_norm_<i>` from normalize.  Here an id is the  *)
(* pair <<prefix, n>>; UUIDs are drawn from a counter (never repeated).    *)
(***************************************************************************)
EXTENDS Integers, Sequences, FiniteSets, TLC

VARIABLES
    plot,            \* geometry: the plot value the pure operations act on
    uuidCounter,     \* number of ids handed out by crypto.randomUUID
    pointIdCounter,  \* Plot component: number of ids handed out by nextPointId
    last,            \* observation: the last two operations and their inputs
    events,          \* number of user events handled so far
    dragState,       \* Plot component: the drag session, [active, points]
    state,           \* application: [plots, activePlotId] of the reducer
    past,            \* history hook: pastRef.current
    future,          \* history hook: futureRef.current
    historyBase,     \* history hook: historyBaseRef.current, <<>> for null
    idCounter,       \* reducer: the next number nextId hands out
    lastCopied,      \* application: lastCopiedRef.current, <<>> for null
    pasting,         \* application: the handlePaste call awaiting the
                     \* clipboard, <<>> when there is none
    snapIn,          \* function under test: its arguments (snapValue:
                     \* <<value, enabled, precision>>; path: the points)
    snapOut          \* function under test: [done, result] on snapIn

vars == <<plot, uuidCounter, pointIdCounter, last, events, dragState,
          state, past, future, historyBase, idCounter, lastCopied, pasting,
          snapIn, snapOut>>

geomVars == <<plot, uuidCounter, pointIdCounter, last, events>>
snapVars == <<snapIn, snapOut>>
dragVars == <<dragState>>
appVars == <<state, past, future, historyBase, idCounter, lastCopied, pasting>>

-----------------------------------------------------------------------------
(* Bounds of the model *)

\* |value| of the scalars handed to snapValue
MaxSnapValue == 6

\* number of user events (selection changes and operations) in one run
MaxEvents == 2

\* number of pointer events (down, move, up) in one run of the drag protocol
MaxDragEvents == 3

\* number of user events in one run of the application
MaxAppEvents == 3

\* number of commits of the side bar in one run
MaxSideEvents == 2

-----------------------------------------------------------------------------
(* JavaScript numbers used as snap precision *)

Num(n) == [kind |-> "num", v |-> n]
NaN == [kind |-> "nan", v |-> 0]
PosInfinity == [kind |-> "inf", v |-> 1]
NegInfinity == [kind |-> "inf", v |-> -1]

\* Number.isFinite
IsFinite(p) == p.kind = "num"

\* `!precision`: 0 and NaN are falsy
IsFalsy(p) == p.kind = "nan" \/ (p.kind = "num" /\ p.v = 0)

\* significand bits of a number (53 in the program's doubles, scaled down):
\* every integer below 2^FloatBits in magnitude is a number, above it only
\* the multiples of the spacing are
FloatBits == 8

\* n / d for n >= 0, d > 0 as the division delivers it: the nearest number
\* with FloatBits significand bits, ties to the even significand; the
\* result is the fraction <<numerator, power of two>>
Fl(n, d) ==
    LET RECURSIVE Pow2(_)
        Pow2(k) == IF k <= 0 THEN 1 ELSE 2 * Pow2(k - 1)
        RECURSIVE Exp(_)
        Exp(j) == IF Pow2(j + 1) * d <= n THEN Exp(j + 1) ELSE j
        HalfEven(a, b) ==
            LET q == a \div b
                r == a % b
            IN  IF 2 * r < b THEN q
                ELSE IF 2 * r > b THEN q + 1
                ELSE IF q % 2 = 0 THEN q ELSE q + 1
        exponent == IF n >= d THEN Exp(0) ELSE IF 2 * n >= d THEN -1 ELSE -2
        e == exponent - (FloatBits - 1)
    IN  IF e >= 0 THEN <<HalfEven(n, d * Pow2(e)) * Pow2(e), 1>>
        ELSE <<HalfEven(n * Pow2(-e), d), Pow2(-e)>>

\* the integer n as the multiplication delivers it
FlInt(n) ==
    IF n < 0 THEN -(Fl(-n, 1)[1] \div Fl(-n, 1)[2])
    ELSE Fl(n, 1)[1] \div Fl(n, 1)[2]

\* Math.round(n / d) for integers n, d with d # 0: the quotient is a number,
\* Math.round takes it to the nearest integer, halves towards +Infinity
MathRound(n, d) ==
    LET an == IF n < 0 THEN -n ELSE n
        ad == IF d < 0 THEN -d ELSE d
        f == Fl(an, ad)
    IN  IF (n < 0) # (d < 0) THEN (f[2] - 2 * f[1]) \div (2 * f[2])
        ELSE (2 * f[1] + f[2]) \div (2 * f[2])

Min2(a, b) == IF a <= b THEN a ELSE b
Max2(a, b) == IF a >= b THEN a ELSE b

-----------------------------------------------------------------------------
(* Snapping and clamping *)

\* the value is moved to the grid step above the nearest one
snapValue_stepAbove(value, enabled, precision) ==
    IF ~enabled THEN value
    ELSE IF IsFalsy(precision) \/ ~IsFinite(precision) THEN value
    ELSE FlInt((MathRound(value, precision.v) + 1) * precision.v)

snapValue(value, enabled, precision) ==
    IF ~enabled THEN value
    ELSE IF IsFalsy(precision) \/ ~IsFinite(precision) THEN value
    ELSE FlInt(MathRound(value, precision.v) * precision.v)

\* min and max exchanged
clampValue_swapped(v, domain) == Max2(domain[2], Min2(domain[1], v))

clampValue(v, domain) == Min2(domain[2], Max2(domain[1], v))

-----------------------------------------------------------------------------
(* Point arrays.  A point is [id, x, y]; an array is a sequence, indexed   *)
(* from 1 (index 0 stands for the program's -1, "not found").              *)

Ids(points) == {points[i].id : i \in 1 .. Len(points)}

Xs(points) == {points[i].x : i \in 1 .. Len(points)}

SetMin(S) == CHOOSE m \in S : \A n \in S : m <= n
SetMax(S) == CHOOSE m \in S : \A n \in S : m >= n

\* points.filter(p => selection.has(p.id))
Selected(points, selection) ==
    SelectSeq(points, LAMBDA p : p.id \in selection)

\* Array.prototype.sort with (a, b) => a.x - b.x is stable: insertion of
\* each element after the last element whose x is not greater
RECURSIVE InsertSorted(_, _)
InsertSorted(sorted, p) ==
    IF sorted = <<>> THEN <<p>>
    ELSE IF sorted[Len(sorted)].x <= p.x THEN Append(sorted, p)
    ELSE Append(InsertSorted(SubSeq(sorted, 1, Len(sorted) - 1), p),
                sorted[Len(sorted)])

RECURSIVE sortPoints(_)
sortPoints(pts) ==
    IF pts = <<>> THEN <<>>
    ELSE InsertSorted(sortPoints(SubSeq(pts, 1, Len(pts) - 1)), pts[Len(pts)])

filterRightOutsideSpan(points, spanEnd) ==
    SelectSeq(points, LAMBDA p : p.x > spanEnd)

filterLeftOutsideSpan(points, spanStart) ==
    SelectSeq(points, LAMBDA p : p.x < spanStart)

\* first and last index of a selected point, 0 when there is none
findSelectionBounds(points, selection) ==
    LET idx == {i \in 1 .. Len(points) : points[i].id \in selection}
    IN  IF idx = {} THEN [first |-> 0, last |-> 0]
        ELSE [first |-> SetMin(idx), last |-> SetMax(idx)]

insertPointByX(points, point) ==
    LET greater == {i \in 1 .. Len(points) : points[i].x > point.x}
    IN  IF greater = {} THEN Append(points, point)
        ELSE LET idx == SetMin(greater)
             IN  SubSeq(points, 1, idx - 1) \o <<point>>
                     \o SubSeq(points, idx, Len(points))

\* the id returned by the k-th call of () => crypto.randomUUID() when c ids
\* were handed out before
makeId(c, k) == <<"uuid", c + k>>

flipSelectionY(points, selection, domainY, snapEnabled, snapPrecision) ==
    [i \in 1 .. Len(points) |->
        IF points[i].id \notin selection THEN points[i]
        ELSE [points[i] EXCEPT
                !.y = snapValue(clampValue(-points[i].y, domainY),
                                snapEnabled, snapPrecision)]]

flipSelectionX(points, selection, domainX, snapEnabled, snapPrecision) ==
    LET selected == Selected(points, selection)
    IN  IF selected = <<>> THEN points
        ELSE LET minX == SetMin(Xs(selected))
                 maxX == SetMax(Xs(selected))
             IN  [i \in 1 .. Len(points) |->
                    IF points[i].id \notin selection THEN points[i]
                    ELSE [points[i] EXCEPT
                            !.x = snapValue(
                                    clampValue(maxX - (points[i].x - minX),
                                               domainX),
                                    snapEnabled, snapPrecision)]]

\* only the selected points are kept
trimToSelection_selectedOnly(points, selection) ==
    LET selected == Selected(points, selection)
    IN  IF Len(selected) < 2 THEN points ELSE selected

trimToSelection(points, selection) ==
    LET selected == Selected(points, selection)
    IN  IF Len(selected) < 2 THEN points
        ELSE LET minX == SetMin(Xs(selected))
                 maxX == SetMax(Xs(selected))
             IN  SelectSeq(points, LAMBDA p : p.x >= minX /\ p.x <= maxX)

addPoint(points, point) == insertPointByX(points, point)

removePoint(points, id) ==
    LET next == SelectSeq(points, LAMBDA p : p.id # id)
    IN  IF Len(next) = Len(points) THEN points ELSE next

\* the loop visits the anchor as well
mirrorLoop_withAnchor(first, last_, direction) ==
    [k \in 1 .. last_ - first + 1 |-> last_ - k + 1]

\* the indices visited by `for (let i = start; shouldContinue(i); i--)`:
\* right: last-1 down to first; left: last down to first+1
mirrorLoop(first, last_, direction) ==
    [k \in 1 .. last_ - first |->
        IF direction = "right" THEN last_ - k ELSE last_ - k + 1]

\* the result is [points, selection, made]: made counts the makeId calls
mirrorSelection(points, selection, c, direction) ==
    LET b == findSelectionBounds(points, selection)
        first == b.first
        last_ == b.last
    IN  IF first = 0 \/ last_ - first + 1 < 2
        THEN [points |-> points, selection |-> selection, made |-> 0]
        ELSE
        LET anchorIdx == IF direction = "right" THEN last_ ELSE first
            anchor == points[anchorIdx]
            width == points[last_].x - points[first].x
            loop == mirrorLoop(first, last_, direction)
            n == Len(loop)
            src(k) == points[loop[k]]
            mirrored == [k \in 1 .. n |->
                            [id |-> makeId(c, k),
                             x |-> anchor.x + (anchor.x - src(k).x),
                             y |-> src(k).y]]
            newSelection == {anchor.id} \cup Ids(mirrored)
        IN  IF direction = "right"
            THEN LET spanEnd == anchor.x + width
                     rightTail == filterRightOutsideSpan(
                                    SubSeq(points, last_ + 1, Len(points)),
                                    spanEnd)
                 IN  [points |-> SubSeq(points, 1, last_) \o mirrored
                                    \o rightTail,
                      selection |-> newSelection, made |-> n]
            ELSE LET spanStart == anchor.x - width
                     leftHead == filterLeftOutsideSpan(
                                    SubSeq(points, 1, first - 1), spanStart)
                 IN  [points |-> leftHead \o mirrored
                                    \o SubSeq(points, first, Len(points)),
                      selection |-> newSelection, made |-> n]

duplicateSelectionRight(points, selection, c) ==
    LET b == findSelectionBounds(points, selection)
        first == b.first
        last_ == b.last
    IN  IF first = 0
        THEN [points |-> points, selection |-> selection, made |-> 0]
        ELSE
        LET minX == points[first].x
            maxX == points[last_].x
            anchor == points[last_]
            shift == maxX - minX
            n == last_ - first + 1
            duplicated == [k \in 1 .. n |->
                            [id |-> makeId(c, k),
                             x |-> points[first + k - 1].x + shift,
                             y |-> points[first + k - 1].y]]
            filtered == SelectSeq(duplicated,
                            LAMBDA p : ~(p.x = anchor.x /\ p.y = anchor.y))
            spanEnd == maxX + shift
            rightTail == filterRightOutsideSpan(
                            SubSeq(points, last_ + 1, Len(points)), spanEnd)
        IN  [points |-> SubSeq(points, 1, last_) \o filtered \o rightTail,
             selection |-> Ids(filtered), made |-> n]

duplicateSelectionLeft(points, selection, c) ==
    LET b == findSelectionBounds(points, selection)
        first == b.first
        last_ == b.last
    IN  IF first = 0
        THEN [points |-> points, selection |-> selection, made |-> 0]
        ELSE
        LET minX == points[first].x
            maxX == points[last_].x
            anchor == points[first]
            shift == maxX - minX
            n == last_ - first + 1
            duplicated == [k \in 1 .. n |->
                            [id |-> makeId(c, k),
                             x |-> points[first + k - 1].x - shift,
                             y |-> points[first + k - 1].y]]
            filtered == SelectSeq(duplicated,
                            LAMBDA p : ~(p.x = anchor.x /\ p.y = anchor.y))
            spanStart == minX - shift
            leftHead == filterLeftOutsideSpan(
                            SubSeq(points, 1, first - 1), spanStart)
        IN  [points |-> leftHead \o filtered
                            \o SubSeq(points, first, Len(points)),
             selection |-> Ids(filtered), made |-> n]

\* incoming is a sequence of plain points [x, y]
\* a selection that names no present point is dropped
replaceSelectionWithPoints_staleCleared(points, selection, incoming, domainX, domainY, c) ==
    IF incoming = <<>> \/ selection = {}
    THEN [points |-> points, selection |-> selection, made |-> 0]
    ELSE
    LET first == findSelectionBounds(points, selection).first
    IN  IF first = 0
        THEN [points |-> points, selection |-> {}, made |-> 0]
        ELSE
        LET anchorX == points[first].x
            shiftX == anchorX - SetMin(Xs(incoming))
            spanEnd == anchorX + (SetMax(Xs(incoming)) - SetMin(Xs(incoming)))
            newPoints == [k \in 1 .. Len(incoming) |->
                            [id |-> makeId(c, k),
                             x |-> clampValue(incoming[k].x + shiftX, domainX),
                             y |-> clampValue(incoming[k].y, domainY)]]
            left == SelectSeq(points, LAMBDA p : p.x < anchorX)
            right == SelectSeq(points, LAMBDA p : p.x > spanEnd)
        IN  [points |-> left \o newPoints \o right,
             selection |-> Ids(newPoints), made |-> Len(incoming)]

\* only the points at the anchor's x are replaced: the width of the incoming
\* span is ignored
replaceSelectionWithPoints_anchorOnly(points, selection, incoming, domainX, domainY, c) ==
    IF incoming = <<>> \/ selection = {}
    THEN [points |-> points, selection |-> selection, made |-> 0]
    ELSE
    LET first == findSelectionBounds(points, selection).first
    IN  IF first = 0
        THEN [points |-> points, selection |-> selection, made |-> 0]
        ELSE
        LET anchorX == points[first].x
            shiftX == anchorX - SetMin(Xs(incoming))
            newPoints == [k \in 1 .. Len(incoming) |->
                            [id |-> makeId(c, k),
                             x |-> clampValue(incoming[k].x + shiftX, domainX),
                             y |-> clampValue(incoming[k].y, domainY)]]
            left == SelectSeq(points, LAMBDA p : p.x < anchorX)
            right == SelectSeq(points, LAMBDA p : p.x > anchorX)
        IN  [points |-> left \o newPoints \o right,
             selection |-> Ids(newPoints), made |-> Len(incoming)]

replaceSelectionWithPoints(points, selection, incoming, domainX, domainY, c) ==
    IF incoming = <<>> \/ selection = {}
    THEN [points |-> points, selection |-> selection, made |-> 0]
    ELSE
    LET first == findSelectionBounds(points, selection).first
    IN  IF first = 0
        THEN [points |-> points, selection |-> selection, made |-> 0]
        ELSE
        LET anchorX == points[first].x
            minIncomingX == SetMin(Xs(incoming))
            maxIncomingX == SetMax(Xs(incoming))
            shiftX == anchorX - minIncomingX
            spanStart == anchorX
            spanEnd == anchorX + (maxIncomingX - minIncomingX)
            newPoints == [k \in 1 .. Len(incoming) |->
                            [id |-> makeId(c, k),
                             x |-> clampValue(incoming[k].x + shiftX, domainX),
                             y |-> clampValue(incoming[k].y, domainY)]]
            left == SelectSeq(points, LAMBDA p : p.x < spanStart)
            right == SelectSeq(points, LAMBDA p : p.x > spanEnd)
        IN  [points |-> left \o newPoints \o right,
             selection |-> Ids(newPoints), made |-> Len(incoming)]

-----------------------------------------------------------------------------
(* Plot values and the updaters the application hands to updateActivePlot. *)
(* A plot is [id, points, selection, brush, domainX, domainY, snapX,       *)
(* snapY, snapPrecisionX, snapPrecisionY]; selection is the set of the ids *)
(* in the program's selection array; name, grid flags and background play  *)
(* no part in any operation.                                               *)

Pt(id, x, y) == [id |-> id, x |-> x, y |-> y]
Plain(x, y) == [x |-> x, y |-> y]

MIN_POINTS == 2

\* the k-th id of the Plot component's counter: `pt_${pointIdCounter++}`
nextPointId(c) == <<"pt", c + 1>>

handleFlipY(p) ==
    [p EXCEPT !.points = flipSelectionY(p.points, p.selection, p.domainY,
                                        p.snapY, p.snapPrecisionY)]

handleFlipX(p) ==
    [p EXCEPT !.points = flipSelectionX(p.points, p.selection, p.domainX,
                                        p.snapX, p.snapPrecisionX)]

\* { ...p, ...result }: points and selection are replaced
Merge(p, r) == [p EXCEPT !.points = r.points, !.selection = r.selection]

handleMirrorLeft(p, c) ==
    Merge(p, mirrorSelection(p.points, p.selection, c, "left"))

handleMirrorRight(p, c) ==
    Merge(p, mirrorSelection(p.points, p.selection, c, "right"))

handleDuplicateLeft(p, c) ==
    Merge(p, duplicateSelectionLeft(p.points, p.selection, c))

handleDuplicateRight(p, c) ==
    Merge(p, duplicateSelectionRight(p.points, p.selection, c))

handleTrim(p) ==
    [p EXCEPT !.points = trimToSelection(p.points, p.selection)]

handleDeleteSelection(p) ==
    IF p.selection = {} THEN p
    ELSE [p EXCEPT
            !.points = SelectSeq(p.points, LAMBDA pt : pt.id \notin p.selection),
            !.selection = {}]

handlePaste(p, incoming, c) ==
    Merge(p, replaceSelectionWithPoints(p.points, p.selection, incoming,
                                        p.domainX, p.domainY, c))

\* double click on the background: the point is added where the pointer is
\* and the selection is cleared
handleDoubleClickBackground(p, c, x, y) ==
    [p EXCEPT !.points = addPoint(p.points, Pt(nextPointId(c), x, y)),
              !.selection = {}]

\* the point is removed whatever the size of the array
handleDoubleClickPoint_unguarded(p, id) ==
    [p EXCEPT !.points = removePoint(p.points, id), !.selection = {}]

\* double click on a point
handleDoubleClickPoint(p, id) ==
    IF Len(p.points) <= MIN_POINTS THEN p
    ELSE [p EXCEPT !.points = removePoint(p.points, id), !.selection = {}]

-----------------------------------------------------------------------------
(* Specification Spec: the geometry operations applied, in any order and   *)
(* with any selection, to one plot value.                                  *)

MkPlot(points, dX, dY, sx, sy, px, py) ==
    [id |-> <<"p", 0>>, points |-> points, selection |-> {}, brush |-> <<>>,
     domainX |-> dX, domainY |-> dY, snapX |-> sx, snapY |-> sy,
     snapPrecisionX |-> Num(px), snapPrecisionY |-> Num(py)]

\* a two-point curve on the default x domain, snapping off
SeedA ==
    MkPlot(<<Pt(<<"p", 1>>, 0, 0), Pt(<<"p", 2>>, 10, 5)>>,
           <<-180, 180>>, <<0, 10>>, FALSE, FALSE, 1, 1)

\* three points, y domain symmetric about zero, snapping off
SeedB ==
    MkPlot(<<Pt(<<"p", 1>>, -10, 1), Pt(<<"p", 2>>, 0, 2),
             Pt(<<"p", 3>>, 10, 1)>>,
           <<-180, 180>>, <<-5, 5>>, FALSE, FALSE, 1, 1)

\* three points on a narrow domain whose bounds are no multiples of the
\* snap step, snapping on
SeedS ==
    MkPlot(<<Pt(<<"p", 1>>, -2, -3), Pt(<<"p", 2>>, 0, 1),
             Pt(<<"p", 3>>, 2, 0)>>,
           <<-3, 3>>, <<-3, 3>>, TRUE, TRUE, 2, 2)

\* four points, snapping on x only, at the unit step
SeedW ==
    MkPlot(<<Pt(<<"p", 1>>, -2, 0), Pt(<<"p", 2>>, -1, 2),
             Pt(<<"p", 3>>, 1, -1), Pt(<<"p", 4>>, 3, 1)>>,
           <<-4, 4>>, <<-2, 2>>, TRUE, FALSE, 1, 1)

\* two points at the same x
SeedT ==
    MkPlot(<<Pt(<<"p", 1>>, 0, 0), Pt(<<"p", 2>>, 0, 1),
             Pt(<<"p", 3>>, 2, 2)>>,
           <<-4, 4>>, <<-3, 3>>, FALSE, TRUE, 1, 3)

SeedPlots == {SeedA, SeedB, SeedS, SeedW, SeedT}

\* where a double click may add a point
AddXs == {1}
AddYs == {0}

\* point lists a paste may bring in (clipboard text or the last copy)
Incomings ==
    {<<>>, <<Plain(0, 0), Plain(2, 1)>>, <<Plain(7, 9), Plain(5, -9)>>}

Obs(op, before, incoming) ==
    [op |-> op, before |-> before, incoming |-> incoming,
     prevOp |-> last.op, prevBefore |-> last.before]

\* dragState.current = null
NoDrag == [active |-> FALSE, plot |-> <<>>, points |-> <<>>]

-----------------------------------------------------------------------------
(* The reducer of the application (state/reducer.ts).  The defaults are    *)
(* scaled to the grid of the model: the x domain is [-2, 2] for the        *)
(* program's [-180, 180] and a new plot has 3 points for the program's 20. *)

\* null
Null == <<>>

DEFAULT_DOMAIN_X == <<-2, 2>>
DEFAULT_DOMAIN_Y == <<-1, 1>>
DEFAULT_SNAP_PRECISION_X == 1
DEFAULT_SNAP_PRECISION_Y == 1
DEFAULT_POINT_COUNT == 3

\* `p_${idCounter++}` at counter value c
\* the counter is not advanced
nextId_stuck(c) == <<"p", 1>>

nextId(c) == <<"p", c>>

\* Math.sin(t * Math.PI * 2) for t = num / den a multiple of a quarter turn
SinTurn(num, den) ==
    LET quarter == ((4 * num) \div den) % 4
    IN  IF quarter = 1 THEN 1 ELSE IF quarter = 3 THEN -1 ELSE 0

\* the ids are drawn at c, c + 1, ...
makeDefaultPoints(domainX, domainY, c) ==
    LET minX == domainX[1]
        spanX == domainX[2] - domainX[1]
        midY == (domainY[1] + domainY[2]) \div 2
    IN  [k \in 1 .. DEFAULT_POINT_COUNT |->
            Pt(nextId(c + k - 1),
               minX + (spanX * (k - 1)) \div (DEFAULT_POINT_COUNT - 1),
               midY + (SinTurn(k - 1, DEFAULT_POINT_COUNT - 1)
                         * (domainY[2] - domainY[1])) \div 4)]

\* the plot id is drawn first, at c, then the ids of the points
makePlot(c) ==
    [MkPlot(makeDefaultPoints(DEFAULT_DOMAIN_X, DEFAULT_DOMAIN_Y, c + 1),
            DEFAULT_DOMAIN_X, DEFAULT_DOMAIN_Y, FALSE, FALSE,
            DEFAULT_SNAP_PRECISION_X, DEFAULT_SNAP_PRECISION_Y)
        EXCEPT !.id = nextId(c)]

makeInitialState(c) ==
    LET firstPlot == makePlot(c)
    IN  [plots |-> <<firstPlot>>, activePlotId |-> firstPlot.id]

\* state.plots.find(p => p.id === id), as an index; 0 when there is none
findPlot(plots, id) ==
    LET at == {i \in 1 .. Len(plots) : plots[i].id = id}
    IN  IF at = {} THEN 0 ELSE SetMin(at)

\* the number of ids an action draws from nextId
idsDrawn(st, action) ==
    IF action.type = "plot/add" THEN 1 + DEFAULT_POINT_COUNT
    ELSE IF action.type = "plot/duplicate" /\ findPlot(st.plots, action.id) # 0
    THEN 1 + Len(st.plots[findPlot(st.plots, action.id)].points)
    ELSE 0

reducer(st, action, c) ==
    IF action.type = "plot/add"
    THEN LET next == makePlot(c)
         IN  [plots |-> Append(st.plots, next), activePlotId |-> next.id]
    ELSE IF action.type = "plot/duplicate"
    THEN LET i == findPlot(st.plots, action.id)
         IN  IF i = 0 THEN st
             ELSE LET source == st.plots[i]
                      clone == [source EXCEPT
                          !.id = nextId(c),
                          !.selection = {},
                          !.brush = <<>>,
                          !.points = [k \in 1 .. Len(source.points) |->
                              [source.points[k] EXCEPT !.id = nextId(c + k)]]]
                  IN  [plots |-> Append(st.plots, clone),
                       activePlotId |-> nextId(c)]
    ELSE IF action.type = "plot/remove"
    THEN LET remaining == SelectSeq(st.plots, LAMBDA q : q.id # action.id)
         IN  [plots |-> remaining,
              activePlotId |->
                  IF st.activePlotId = action.id
                  THEN (IF remaining = <<>> THEN Null ELSE remaining[1].id)
                  ELSE st.activePlotId]
    ELSE IF action.type = "plot/replace"
    THEN [st EXCEPT !.plots = [i \in 1 .. Len(st.plots) |->
              IF st.plots[i].id = action.plot.id THEN action.plot
              ELSE st.plots[i]]]
    ELSE IF action.type = "app/set-active"
    THEN [st EXCEPT !.activePlotId = action.id]
    ELSE IF action.type = "app/replace-state"
    THEN action.state
    ELSE st

\* replacePlot(plot)
replacePlot(st, p) == reducer(st, [type |-> "plot/replace", plot |-> p], 0)

hasActivePlot(st) == findPlot(st.plots, st.activePlotId) # 0

\* defined when hasActivePlot(st)
activePlot(st) == st.plots[findPlot(st.plots, st.activePlotId)]

-----------------------------------------------------------------------------
(* The history hook (useHistoryReducer) *)

\* historyLimit of the hook; the program passes HISTORY_LIMIT = 100
HISTORY_LIMIT == 1

\* the stack is never trimmed
recordChange_unbounded(pst, prev) == Append(pst, prev)

\* the new pastRef.current
recordChange(pst, prev) ==
    LET stack == Append(pst, prev)
    IN  IF Len(stack) > HISTORY_LIMIT
        THEN SubSeq(stack, Len(stack) - HISTORY_LIMIT + 1, Len(stack))
        ELSE stack

\* historyBaseRef.current ?? cloneState(state)
snapshot(base, st) == IF base # Null THEN base[1] ELSE st

-----------------------------------------------------------------------------
(* Normalize to domain (DataPanel).  buildMonotoneSpline is not part of    *)
(* the sources at hand; what evaluate returns is taken from the contract   *)
(* of the spline: the curve passes through every data point, keeps the y   *)
(* of the first (last) point left (right) of the data, and between two     *)
(* consecutive points stays between their y values.                        *)

\* the values evaluate(x) may return on the grid
evaluate(sorted, x) ==
    LET n == Len(sorted)
        at == {i \in 1 .. n : sorted[i].x = x}
    IN  IF at # {} THEN {sorted[i].y : i \in at}
        ELSE IF x < sorted[1].x THEN {sorted[1].y}
        ELSE IF x > sorted[n].x THEN {sorted[n].y}
        ELSE LET i == SetMax({j \in 1 .. n : sorted[j].x < x})
             IN  Min2(sorted[i].y, sorted[i + 1].y) ..
                 Max2(sorted[i].y, sorted[i + 1].y)

\* the step of the resampling; 0 stands for "no step" (the handler returns)
normalizeStep(p) ==
    LET span == p.domainX[2] - p.domainX[1]
        precision == p.snapPrecisionX
    IN  IF span > 0 /\ precision.kind = "num" /\ precision.v > 0
        THEN precision.v
        ELSE IF span > 0 THEN Max2(span \div (Len(p.points) - 1), 1)
        ELSE 0

\* the sample positions: x0, x0 + step, ... up to x1, then x1 itself when
\* the last sample falls short of it; at most 2000 samples
normalizeXs(x0, x1, step) ==
    LET n == Min2((x1 - x0) \div step + 1, 2000)
        xs == [k \in 1 .. n |-> x0 + (k - 1) * step]
    IN  IF xs[n] < x1 /\ n < 2000 THEN Append(xs, x1) ELSE xs

\* the id of sample i (from 1): that of the i-th sorted point, else
\* `pt_norm_${i}` with the program's index, from 0
normalizeId(sorted, i) ==
    IF i <= Len(sorted) THEN sorted[i].id ELSE <<"pt_norm", i - 1>>

\* the sequences whose i-th element is drawn from the i-th set
RECURSIVE SeqsOver(_)
SeqsOver(sets) ==
    IF sets = <<>> THEN {<<>>}
    ELSE {Append(f, v) : f \in SeqsOver(SubSeq(sets, 1, Len(sets) - 1)),
                         v \in sets[Len(sets)]}

\* the plots handleNormalize may hand to onChange, one per outcome of
\* evaluate; the empty set when the handler returns early
handleNormalize(p) ==
    IF Len(p.points) < 2 \/ normalizeStep(p) <= 0 THEN {}
    ELSE LET sorted == sortPoints(p.points)
             xs == normalizeXs(p.domainX[1], p.domainX[2], normalizeStep(p))
             ys == SeqsOver([i \in 1 .. Len(xs) |->
                      {clampValue(v, p.domainY) :
                          v \in evaluate(sorted, xs[i])}])
         IN  {[p EXCEPT !.points = [i \in 1 .. Len(xs) |->
                            Pt(normalizeId(sorted, i), xs[i], f[i])],
                        !.selection = {},
                        !.brush = <<>>] : f \in ys}

\* the application as it is when idle: the initial state of the reducer
AppIdle ==
    /\ state = makeInitialState(1)
    /\ idCounter = 2 + DEFAULT_POINT_COUNT
    /\ past = <<>>
    /\ future = <<>>
    /\ historyBase = Null
    /\ lastCopied = Null
    /\ pasting = Null

GeomIdle ==
    /\ dragState = NoDrag
    /\ AppIdle
    /\ plot = SeedA
    /\ uuidCounter = 0
    /\ pointIdCounter = 0
    /\ events = 0
    /\ last = [op |-> "none", before |-> SeedA, incoming |-> <<>>,
               prevOp |-> "none", prevBefore |-> SeedA]

Init ==
    /\ \E seed \in SeedPlots :
          \E ids \in SUBSET Ids(seed.points) :
              plot = [seed EXCEPT !.selection = ids]
    /\ uuidCounter = 0
    /\ pointIdCounter = 0
    /\ events = 0
    /\ last = [op |-> "none", before |-> plot, incoming |-> <<>>,
               prevOp |-> "none", prevBefore |-> plot]
    /\ snapIn = <<0, FALSE, Num(1)>>
    /\ snapOut = [done |-> FALSE, result |-> 0]
    /\ dragState = NoDrag
    /\ AppIdle

\* an operation that draws no id
Apply(op, next) ==
    /\ events < MaxEvents
    /\ events' = events + 1
    /\ plot' = next
    /\ last' = Obs(op, plot, <<>>)
    /\ UNCHANGED <<uuidCounter, pointIdCounter, snapVars, dragVars, appVars>>

\* an operation that draws its ids from crypto.randomUUID
ApplyMaking(op, next, made, incoming) ==
    /\ events < MaxEvents
    /\ events' = events + 1
    /\ plot' = next
    /\ uuidCounter' = uuidCounter + made
    /\ last' = Obs(op, plot, incoming)
    /\ UNCHANGED <<pointIdCounter, snapVars, dragVars, appVars>>

\* the selection is set by click, modifier click or brush
Select ==
    \E ids \in SUBSET Ids(plot.points) :
        /\ ids # plot.selection
        /\ Apply("select", [plot EXCEPT !.selection = ids])

FlipY == Apply("flipY", handleFlipY(plot))

FlipX == Apply("flipX", handleFlipX(plot))

Trim == Apply("trim", handleTrim(plot))

DeleteSelection == Apply("delete", handleDeleteSelection(plot))

MirrorLeft ==
    ApplyMaking("mirrorLeft", handleMirrorLeft(plot, uuidCounter),
                mirrorSelection(plot.points, plot.selection, uuidCounter,
                                "left").made, <<>>)

MirrorRight ==
    ApplyMaking("mirrorRight", handleMirrorRight(plot, uuidCounter),
                mirrorSelection(plot.points, plot.selection, uuidCounter,
                                "right").made, <<>>)

DuplicateLeft ==
    ApplyMaking("duplicateLeft", handleDuplicateLeft(plot, uuidCounter),
                duplicateSelectionLeft(plot.points, plot.selection,
                                       uuidCounter).made, <<>>)

DuplicateRight ==
    ApplyMaking("duplicateRight", handleDuplicateRight(plot, uuidCounter),
                duplicateSelectionRight(plot.points, plot.selection,
                                        uuidCounter).made, <<>>)

Paste ==
    \E incoming \in Incomings :
        ApplyMaking("paste", handlePaste(plot, incoming, uuidCounter),
                    replaceSelectionWithPoints(plot.points, plot.selection,
                        incoming, plot.domainX, plot.domainY,
                        uuidCounter).made, incoming)

DoubleClickBackground ==
    \E x \in AddXs, y \in AddYs :
        /\ events < MaxEvents
        /\ events' = events + 1
        /\ plot' = handleDoubleClickBackground(plot, pointIdCounter, x, y)
        /\ pointIdCounter' = pointIdCounter + 1
        /\ last' = Obs("add", plot, <<>>)
        /\ UNCHANGED <<uuidCounter, snapVars, dragVars, appVars>>

DoubleClickPoint ==
    \E id \in Ids(plot.points) :
        Apply("remove", handleDoubleClickPoint(plot, id))

Next ==
    \/ Select
    \/ FlipY
    \/ FlipX
    \/ Trim
    \/ DeleteSelection
    \/ MirrorLeft
    \/ MirrorRight
    \/ DuplicateLeft
    \/ DuplicateRight
    \/ Paste
    \/ DoubleClickBackground
    \/ DoubleClickPoint

Spec == Init /\ [][Next]_vars

-----------------------------------------------------------------------------
(* Properties of the geometry operations, stated on the plot after the     *)
(* operation (plot) and the plot it was applied to (last.before).          *)

GeometryOps ==
    {"add", "remove", "flipX", "flipY", "trim", "mirrorLeft", "mirrorRight",
     "duplicateLeft", "duplicateRight", "paste"}

IsAscending(points) ==
    \A i \in 1 .. Len(points) - 1 : points[i].x <= points[i + 1].x

InDomain(v, domain) == domain[1] <= v /\ v <= domain[2]

AllInDomain(p) ==
    \A i \in 1 .. Len(p.points) :
        /\ InDomain(p.points[i].x, p.domainX)
        /\ InDomain(p.points[i].y, p.domainY)

\* the points of the result that the operation made
NewPoints == SelectSeq(plot.points, LAMBDA q : q.id \notin Ids(last.before.points))

\* indices of the selected points in the input of the last operation
SelIdx == {i \in 1 .. Len(last.before.points) :
              last.before.points[i].id \in last.before.selection}

\* C1: starting from an x-ascending array, the array returned by every
\* geometry operation is x-ascending.
C1_SortInvariant ==
    (last.op \in GeometryOps /\ IsAscending(last.before.points))
        => IsAscending(plot.points)

\* C2: when all existing points lie inside the domains, every point made by
\* mirror, duplicate or paste lies inside domainX x domainY.
C2_SynthesizedInDomain ==
    (/\ last.op \in {"mirrorLeft", "mirrorRight", "duplicateLeft",
                     "duplicateRight", "paste"}
     /\ AllInDomain(last.before))
        => \A i \in 1 .. Len(NewPoints) :
              /\ InDomain(NewPoints[i].x, plot.domainX)
              /\ InDomain(NewPoints[i].y, plot.domainY)

\* C3: deleting the selection never leaves fewer than 2 points; when it
\* would, the points are unchanged.
C3_DeleteKeepsTwoPoints ==
    last.op = "delete" =>
        /\ Len(plot.points) >= 2
        /\ (Len(last.before.points) - Cardinality(SelIdx) < 2
                => plot.points = last.before.points)

MirrorOps == {"mirrorLeft", "mirrorRight"}

\* index of the anchor in the input of the last mirror
MirrorAnchorIdx ==
    IF last.op = "mirrorRight" THEN SetMax(SelIdx) ELSE SetMin(SelIdx)

\* the new points are, one to one, the reflections of the points of the
\* input at the indices Srcs
ReflectsExactly(Srcs) ==
    LET a == last.before.points[MirrorAnchorIdx]
        new == 1 .. Len(NewPoints)
        Reflection(j) == <<2 * a.x - last.before.points[j].x,
                           last.before.points[j].y>>
        At(i) == <<NewPoints[i].x, NewPoints[i].y>>
    IN  /\ Len(NewPoints) = Cardinality(Srcs)
        \* as many new points at each place as sources reflected to it
        /\ \A i \in new :
              Cardinality({k \in new : At(k) = At(i)})
                  = Cardinality({j \in Srcs : Reflection(j) = At(i)})
        /\ plot.selection = {a.id} \cup Ids(NewPoints)

\* C4 as claimed: a mirror of k >= 2 selected points, contiguous or not,
\* makes exactly k-1 points, one reflection per selected non-anchor point,
\* and selects the anchor and the new points.
C4_MirrorSelectedOnly ==
    (last.op \in MirrorOps /\ Cardinality(SelIdx) >= 2)
        => ReflectsExactly(SelIdx \ {MirrorAnchorIdx})

\* C4 as amended: a mirror of k >= 2 selected points makes one reflection
\* per point of the index span from the first to the last selected point
\* other than the anchor, selected or not (k-1 points when the selection is
\* contiguous), and selects the anchor and the new points.
C4_MirrorSpan ==
    (last.op \in MirrorOps /\ Cardinality(SelIdx) >= 2)
        => /\ ReflectsExactly((SetMin(SelIdx) .. SetMax(SelIdx))
                                \ {MirrorAnchorIdx})
           /\ (SelIdx = SetMin(SelIdx) .. SetMax(SelIdx)
                  => Len(NewPoints) = Cardinality(SelIdx) - 1)
           /\ \A i \in 1 .. Len(NewPoints) :
                 NewPoints[i].id # last.before.points[MirrorAnchorIdx].id

\* a mirror of a selection that is not contiguous in the array has acted
C4_Witness ==
    /\ last.op \in MirrorOps
    /\ Cardinality(SelIdx) >= 2
    /\ SelIdx # SetMin(SelIdx) .. SetMax(SelIdx)
    /\ Len(NewPoints) = SetMax(SelIdx) - SetMin(SelIdx)

Coords(points) == [i \in 1 .. Len(points) |-> <<points[i].x, points[i].y>>]

\* C5: duplicateRight of (0,0),(10,5), both selected, gives exactly
\* (0,0),(10,5),(20,5) and selects exactly the new point at x = 20.
C5_DuplicateRightScenario ==
    (/\ last.op = "duplicateRight"
     /\ Coords(last.before.points) = <<(<<0, 0>>), (<<10, 5>>)>>
     /\ last.before.selection = Ids(last.before.points))
        => /\ Coords(plot.points) = <<(<<0, 0>>), (<<10, 5>>), (<<20, 5>>)>>
           /\ plot.selection = {plot.points[Len(plot.points)].id}
           /\ plot.points[Len(plot.points)].id \notin Ids(last.before.points)

IsPositive(p) == p.kind = "num" /\ p.v > 0

\* C7: after flipY (flipX) with snapping on at a positive precision every
\* selected y (x) is clamp(snap(reflected value), domain), inside the domain.
C7_FlipClampsLast ==
    /\ (last.op = "flipY" /\ plot.snapY /\ IsPositive(plot.snapPrecisionY))
          => \A i \in SelIdx :
                /\ plot.points[i].y =
                      clampValue(snapValue(-last.before.points[i].y, TRUE,
                                           plot.snapPrecisionY), plot.domainY)
                /\ InDomain(plot.points[i].y, plot.domainY)
    /\ (last.op = "flipX" /\ plot.snapX /\ IsPositive(plot.snapPrecisionX))
          => \A i \in SelIdx :
                LET xs == {last.before.points[j].x : j \in SelIdx}
                    mirroredX == SetMax(xs)
                                   - (last.before.points[i].x - SetMin(xs))
                IN  /\ plot.points[i].x =
                          clampValue(snapValue(mirroredX, TRUE,
                                               plot.snapPrecisionX),
                                     plot.domainX)
                    /\ InDomain(plot.points[i].x, plot.domainX)

\* flipY has been applied twice in a row to the same selection, snap off
FlippedYTwice ==
    /\ last.op = "flipY"
    /\ last.prevOp = "flipY"
    /\ ~plot.snapY

Ys(points) == [i \in 1 .. Len(points) |-> points[i].y]

\* C9 as claimed: for any points, selection and domainY, flipY twice with
\* snap disabled returns every y to its original value.
C9_FlipYInvolution ==
    FlippedYTwice => Ys(plot.points) = Ys(last.prevBefore.points)

\* the selected points of the first flip whose y and -y both lie in domainY
FlipYStaysInDomain ==
    \A i \in 1 .. Len(last.prevBefore.points) :
        last.prevBefore.points[i].id \in last.prevBefore.selection
            => /\ InDomain(last.prevBefore.points[i].y, plot.domainY)
               /\ InDomain(-last.prevBefore.points[i].y, plot.domainY)

\* C9 as amended: flipY twice with snap disabled returns every y to its
\* original value when y and -y of every selected point lie inside domainY.
C9_FlipYInvolutionInDomain ==
    (FlippedYTwice /\ FlipYStaysInDomain)
        => Ys(plot.points) = Ys(last.prevBefore.points)

\* two flips of a selected point with y # 0 inside a symmetric domain
C9_Witness ==
    /\ FlippedYTwice
    /\ FlipYStaysInDomain
    /\ \E i \in 1 .. Len(last.prevBefore.points) :
          /\ last.prevBefore.points[i].id \in last.prevBefore.selection
          /\ last.prevBefore.points[i].y # 0
          /\ last.before.points[i].y = -last.prevBefore.points[i].y

-----------------------------------------------------------------------------
(* Specification SpecPure: one geometry operation applied to an input      *)
(* drawn from a wider set of plots and selections, among them selections   *)
(* that name points the array no longer holds.                             *)

\* five points, as in the trim example
SeedE ==
    MkPlot(<<Pt(<<"p", 1>>, 0, 0), Pt(<<"p", 2>>, 2, 1),
             Pt(<<"p", 3>>, 5, 2), Pt(<<"p", 4>>, 8, 1),
             Pt(<<"p", 5>>, 10, 0)>>,
           <<0, 10>>, <<0, 2>>, FALSE, FALSE, 1, 1)

PureSeeds == SeedPlots \cup {SeedE}

\* the id of a point that has been removed
StaleId == <<"p", 9>>

\* the operations left to apply are MaxEvents - events: one
InitPure ==
    /\ \E seed \in PureSeeds :
          \E ids \in SUBSET (Ids(seed.points) \cup {StaleId}) :
              plot = [seed EXCEPT !.selection = ids]
    /\ uuidCounter = 0
    /\ pointIdCounter = 0
    /\ events = MaxEvents - 1
    /\ last = [op |-> "none", before |-> plot, incoming |-> <<>>,
               prevOp |-> "none", prevBefore |-> plot]
    /\ snapIn = <<0, FALSE, Num(1)>>
    /\ snapOut = [done |-> FALSE, result |-> 0]
    /\ dragState = NoDrag
    /\ AppIdle

SpecPure == InitPure /\ [][Next]_vars

\* the selected points of the input of the last operation
SelectedBefore == Selected(last.before.points, last.before.selection)

\* C14: trimToSelection with at least 2 selected points returns exactly the
\* points, selected or not, whose x lies in the inclusive span of the
\* selected x values, with ids, coordinates and order preserved; with fewer
\* than 2 selected points it returns the input unchanged.
C14_TrimSpatialWindow ==
    last.op = "trim" =>
        IF Len(SelectedBefore) < 2 THEN plot.points = last.before.points
        ELSE LET lo == SetMin(Xs(SelectedBefore))
                 hi == SetMax(Xs(SelectedBefore))
                 inside == {i \in 1 .. Len(last.before.points) :
                               /\ lo <= last.before.points[i].x
                               /\ last.before.points[i].x <= hi}
             IN  /\ Len(plot.points) = Cardinality(inside)
                 /\ \A k \in 1 .. Len(plot.points) :
                       \E i \in inside :
                           /\ plot.points[k] = last.before.points[i]
                           /\ Cardinality({j \in inside : j < i}) = k - 1

\* the trim example: x = 0, 2, 5, 8, 10 with the points at 2 and 8 selected
C14_Witness ==
    /\ last.op = "trim"
    /\ Coords(last.before.points)
          = <<(<<0, 0>>), (<<2, 1>>), (<<5, 2>>), (<<8, 1>>), (<<10, 0>>)>>
    /\ last.before.selection = {<<"p", 2>>, <<"p", 4>>}
    /\ Coords(plot.points) = <<(<<2, 1>>), (<<5, 2>>), (<<8, 1>>)>>

\* v limited to the interval d
Clamped(v, d) == IF v < d[1] THEN d[1] ELSE IF v > d[2] THEN d[2] ELSE v

\* the points of the result that the input did not hold, in array order
PastedPoints ==
    SelectSeq(plot.points, LAMBDA p : p.id \notin Ids(last.before.points))

\* C16: replaceSelectionWithPoints, given a selection that names a present
\* point and a non-empty incoming list, makes one new point per incoming
\* point, shifted so that the least incoming x lands on the x of the first
\* selected point, clamped to domainX and domainY and carrying a fresh id;
\* it removes every existing point with x in [anchor, anchor + width], keeps
\* every other existing point unchanged, and selects exactly the new ids.
C16_PasteReplace ==
    (last.op = "paste" /\ last.incoming # <<>> /\ SelectedBefore # <<>>) =>
        LET b == last.before
            inc == last.incoming
            anchorX == SelectedBefore[1].x
            minIn == SetMin(Xs(inc))
            width == SetMax(Xs(inc)) - minIn
        IN  /\ Len(PastedPoints) = Len(inc)
            /\ Cardinality(Ids(PastedPoints)) = Len(inc)
            /\ \A k \in 1 .. Len(inc) :
                  /\ PastedPoints[k].x
                        = Clamped(inc[k].x + anchorX - minIn, b.domainX)
                  /\ PastedPoints[k].y = Clamped(inc[k].y, b.domainY)
            /\ SelectSeq(plot.points, LAMBDA p : p.id \in Ids(b.points))
                  = SelectSeq(b.points,
                              LAMBDA p : p.x < anchorX \/ p.x > anchorX + width)
            /\ plot.selection = Ids(PastedPoints)

\* a paste that removed an unselected point inside the span, kept a point
\* outside it and clamped an incoming coordinate
C16_Witness ==
    /\ last.op = "paste" /\ last.incoming # <<>> /\ SelectedBefore # <<>>
    /\ \E i \in 1 .. Len(last.before.points) :
          /\ last.before.points[i].id \notin last.before.selection
          /\ last.before.points[i].id \notin Ids(plot.points)
    /\ Ids(plot.points) \cap Ids(last.before.points) # {}
    /\ \E k \in 1 .. Len(last.incoming) :
          PastedPoints[k].y # last.incoming[k].y

\* C17: mirror with fewer than 2 selected points, trim with fewer than 2
\* selected points, duplicate with no selected point present, and paste with
\* an empty selection, a selection of stale ids only or an empty incoming
\* list return the point array and the selection unchanged.
C17_UndersizedNoOp ==
    LET n == Len(SelectedBefore)
        undersized ==
            \/ last.op \in {"mirrorLeft", "mirrorRight", "trim"} /\ n < 2
            \/ last.op \in {"duplicateLeft", "duplicateRight"} /\ n = 0
            \/ /\ last.op = "paste"
               /\ (last.before.selection = {} \/ n = 0 \/ last.incoming = <<>>)
    IN  undersized => /\ plot.points = last.before.points
                      /\ plot.selection = last.before.selection

\* a paste of a non-empty list into a plot whose selection holds stale ids
\* only
C17_Witness ==
    /\ last.op = "paste"
    /\ last.incoming # <<>>
    /\ last.before.selection = {StaleId}
    /\ plot = last.before

\* flipY left the number of points, their order, every id, every x and
\* every unselected point as they were
FlipYFrame ==
    /\ Len(plot.points) = Len(last.before.points)
    /\ \A i \in 1 .. Len(last.before.points) :
          /\ plot.points[i].id = last.before.points[i].id
          /\ plot.points[i].x = last.before.points[i].x
          /\ i \notin SelIdx => plot.points[i] = last.before.points[i]
    /\ plot.selection = last.before.selection

\* C22: flipY changes only the y of the selected points, to the negated y
\* bounded by domainY; every unselected point, every x and id, the number
\* of points and their order are unchanged.
C22_FlipYFrame ==
    last.op = "flipY" =>
        /\ FlipYFrame
        /\ \A i \in SelIdx :
              plot.points[i].y = Clamped(-last.before.points[i].y,
                                         last.before.domainY)

-----------------------------------------------------------------------------
(* The drag protocol of the Plot component.  The pointer position enters   *)
(* only through the differences of its inverted coordinates; the scales    *)
(* are linear, so a pointer event is given by its displacement (dx, dy)    *)
(* from the drag start, in domain units.  The component is rendered again  *)
(* between two pointer events, so `selection` and `plot` of the closure    *)
(* are those of the plot that the previous event left.                     *)

\* the point of the array that carries the id (the last one, as Map.set)
PointOf(points, id) ==
    points[SetMax({i \in 1 .. Len(points) : points[i].id = id})]

\* startDrag(id, e): the plot with the selection set, and the drag state
startDragPlot(p, id, withModifier) ==
    IF id \notin p.selection /\ ~withModifier
    THEN [p EXCEPT !.selection = {id}]
    ELSE IF withModifier
    THEN [p EXCEPT !.selection =
            IF id \in p.selection THEN p.selection \ {id}
            ELSE p.selection \cup {id}]
    ELSE p

startDragState(p, id) ==
    [active |-> TRUE,
     plot |-> p.id,
     points |-> [q \in {r \in Ids(p.points) : r \in p.selection \/ r = id}
                    |-> <<PointOf(p.points, q).x, PointOf(p.points, q).y>>]]

\* new Set(selection.size ? selection : dragState.points.keys())
idsToMove(p, ds) ==
    IF p.selection # {} THEN p.selection ELSE DOMAIN ds.points

\* x of the nearest point left of position idx of sorted that is not moved
leftBound(sorted, idx, moving, domainX) ==
    LET fixed == {i \in 1 .. idx - 1 : sorted[i].id \notin moving}
    IN  IF fixed = {} THEN domainX[1]
        ELSE Max2(domainX[1], sorted[SetMax(fixed)].x)

rightBound(sorted, idx, moving, domainX) ==
    LET fixed == {i \in idx + 1 .. Len(sorted) : sorted[i].id \notin moving}
    IN  IF fixed = {} THEN domainX[2]
        ELSE Min2(domainX[2], sorted[SetMin(fixed)].x)

\* indexById.get(id): the Map keeps the last index of an id
indexById(sorted, id) ==
    LET at == {i \in 1 .. Len(sorted) : sorted[i].id = id}
    IN  IF at = {} THEN 1 ELSE SetMax(at)

handlePointMove(p, ds, dx, dy) ==
    LET moving == idsToMove(p, ds)
        sorted == sortPoints(p.points)
        moved(q) ==
            LET origin == IF q.id \in DOMAIN ds.points THEN ds.points[q.id]
                          ELSE <<q.x, q.y>>
                idx == indexById(sorted, q.id)
                left == leftBound(sorted, idx, moving, p.domainX)
                right == rightBound(sorted, idx, moving, p.domainX)
                rawX == origin[1] + dx
                clampedX == clampValue(clampValue(rawX, <<left, right>>),
                                       p.domainX)
                clampedY == clampValue(origin[2] + dy, p.domainY)
            IN  [q EXCEPT !.x = snapValue(clampedX, p.snapX, p.snapPrecisionX),
                          !.y = snapValue(clampedY, p.snapY, p.snapPrecisionY)]
        nextPoints == [i \in 1 .. Len(p.points) |->
                        IF p.points[i].id \notin moving THEN p.points[i]
                        ELSE moved(p.points[i])]
    IN  [p EXCEPT !.points = sortPoints(nextPoints)]

-----------------------------------------------------------------------------
(* Specification SpecDrag: pointer down on a point, pointer moves, pointer *)
(* up, on one plot.                                                        *)

\* three points, the middle one off the snap grid of x
SeedD ==
    MkPlot(<<Pt(<<"p", 1>>, -2, 0), Pt(<<"p", 2>>, 1, 1),
             Pt(<<"p", 3>>, 4, 0)>>,
           <<-4, 4>>, <<-2, 2>>, TRUE, FALSE, 2, 1)

DragSeeds == {SeedB, SeedD, SeedW}

\* displacements of the pointer from the drag start
DragDeltas == {<<-5, 0>>, <<-1, 1>>, <<1, 0>>, <<3, -1>>, <<5, 1>>}

InitDrag ==
    /\ \E seed \in DragSeeds :
          \E ids \in SUBSET Ids(seed.points) :
              plot = [seed EXCEPT !.selection = ids]
    /\ dragState = NoDrag
    /\ AppIdle
    /\ uuidCounter = 0
    /\ pointIdCounter = 0
    /\ events = 0
    /\ last = [op |-> "none", before |-> plot, incoming |-> <<>>,
               prevOp |-> "none", prevBefore |-> plot]
    /\ snapIn = <<0, FALSE, Num(1)>>
    /\ snapOut = [done |-> FALSE, result |-> 0]

DragStep(op, next) ==
    /\ events < MaxDragEvents
    /\ events' = events + 1
    /\ plot' = next
    /\ last' = Obs(op, plot, <<>>)
    /\ UNCHANGED <<uuidCounter, pointIdCounter, snapVars, appVars>>

\* pointer down on a point
StartDrag ==
    \E id \in Ids(plot.points), withModifier \in BOOLEAN :
        /\ ~dragState.active
        /\ DragStep("startDrag", startDragPlot(plot, id, withModifier))
        /\ dragState' = startDragState(plot, id)

\* pointer move over the captured point
PointMove ==
    \E d \in DragDeltas :
        /\ dragState.active
        /\ DragStep("move", handlePointMove(plot, dragState, d[1], d[2]))
        /\ UNCHANGED dragState

\* pointer up: the plot is committed and the session ends
EndDrag ==
    /\ dragState.active
    /\ DragStep("endDrag", plot)
    /\ dragState' = NoDrag

NextDrag == StartDrag \/ PointMove \/ EndDrag

SpecDrag == InitDrag /\ [][NextDrag]_vars

\* the points the last move dragged, by id
Dragged == idsToMove(last.before, dragState)

\* positions, in the sorted array before the move, of the points not dragged
FixedBefore ==
    {i \in 1 .. Len(last.before.points) :
        sortPoints(last.before.points)[i].id \notin Dragged}

\* C6: during a drag, for any snap setting and pointer delta, the x of
\* every dragged point stays between the x of its nearest unselected left
\* and right neighbours (the domain bound where there is none).
C6_DragNeighborClamp ==
    (last.op = "move" /\ IsAscending(last.before.points))
        => \A i \in 1 .. Len(last.before.points) :
              LET before == sortPoints(last.before.points)
                  lefts == {j \in FixedBefore : j < i}
                  rights == {j \in FixedBefore : j > i}
                  lo == IF lefts = {} THEN plot.domainX[1]
                        ELSE before[SetMax(lefts)].x
                  hi == IF rights = {} THEN plot.domainX[2]
                        ELSE before[SetMin(rights)].x
                  now == PointOf(plot.points, before[i].id)
              IN  before[i].id \in Dragged => (lo <= now.x /\ now.x <= hi)

-----------------------------------------------------------------------------
(* The side bar (SideBar.tsx): the commit handlers of the domain, snap and *)
(* coordinate fields.  A typed value is the result of parseFloat, a number *)
(* or NaN.  A handler that returns early hands nothing to onChange; here   *)
(* it yields the plot as it is.                                            *)

\* { ...plot, domainX: ... } or { ...plot, domainY: ... }; index 0 is the
\* lower bound, index 1 the upper
commitDomain(p, axis, index, value) ==
    IF value.kind = "nan" THEN p
    ELSE IF axis = "x"
    THEN [p EXCEPT !.domainX = IF index = 0 THEN <<value.v, p.domainX[2]>>
                                ELSE <<p.domainX[1], value.v>>]
    ELSE [p EXCEPT !.domainY = IF index = 0 THEN <<value.v, p.domainY[2]>>
                                ELSE <<p.domainY[1], value.v>>]

handleSnapToggle(p, axis, enabled) ==
    IF axis = "x" THEN [p EXCEPT !.snapX = enabled]
    ELSE [p EXCEPT !.snapY = enabled]

commitSnapPrecision(p, axis, value) ==
    IF value.kind = "nan" \/ value.v <= 0 THEN p
    ELSE IF axis = "x" THEN [p EXCEPT !.snapPrecisionX = value]
    ELSE [p EXCEPT !.snapPrecisionY = value]

\* twice the centre of the selected points on an axis: the coordinate of
\* a single point, else (min + max) / 2
center2(selectedPoints, axis) ==
    LET vs == IF axis = "x" THEN Xs(selectedPoints)
              ELSE {selectedPoints[i].y : i \in 1 .. Len(selectedPoints)}
    IN  SetMin(vs) + SetMax(vs)

\* val - center is on the grid
coordExact(p, axis, val) ==
    LET selectedPoints == Selected(p.points, p.selection)
    IN  IF Len(selectedPoints) <= 1 THEN TRUE
        ELSE (2 * val - center2(selectedPoints, axis)) % 2 = 0

\* commitCoord for a typed number val; defined when coordExact
commitCoord(p, axis, val) ==
    LET selectedPoints == Selected(p.points, p.selection)
        snapEnabled == IF axis = "x" THEN p.snapX ELSE p.snapY
        precision == IF axis = "x" THEN p.snapPrecisionX ELSE p.snapPrecisionY
        domain == IF axis = "x" THEN p.domainX ELSE p.domainY
        sorted == sortPoints(p.points)
        n == Len(sorted)
    IN  IF selectedPoints = <<>> THEN p
        ELSE IF Len(selectedPoints) = 1
        THEN LET id == selectedPoints[1].id
                 sortedIdx == SetMin({i \in 1 .. n : sorted[i].id = id})
                 left == IF sortedIdx > 1 THEN sorted[sortedIdx - 1].x
                         ELSE domain[1]
                 right == IF sortedIdx < n THEN sorted[sortedIdx + 1].x
                          ELSE domain[2]
                 snapped == snapValue(val, snapEnabled, precision)
             IN  IF axis = "x"
                 THEN [p EXCEPT !.points = [i \in 1 .. Len(p.points) |->
                          IF p.points[i].id = id
                          THEN [p.points[i] EXCEPT
                                   !.x = clampValue(snapped, <<left, right>>)]
                          ELSE p.points[i]]]
                 ELSE [p EXCEPT !.points = [i \in 1 .. Len(p.points) |->
                          IF p.points[i].id = id
                          THEN [p.points[i] EXCEPT
                                   !.y = clampValue(snapped, domain)]
                          ELSE p.points[i]]]
        ELSE LET delta == (2 * val - center2(selectedPoints, axis)) \div 2
                 at == {i \in 1 .. n : sorted[i].id \in p.selection}
                 firstIdx == SetMin(at)
                 lastIdx == SetMax(at)
                 leftNeighbor == IF firstIdx > 1 THEN sorted[firstIdx - 1].x
                                 ELSE domain[1]
                 rightNeighbor == IF lastIdx < n THEN sorted[lastIdx + 1].x
                                  ELSE domain[2]
                 minDelta == leftNeighbor - SetMin(Xs(selectedPoints))
                 maxDelta == rightNeighbor - SetMax(Xs(selectedPoints))
                 clampedDelta == clampValue(delta, <<minDelta, maxDelta>>)
             IN  IF axis = "x"
                 THEN [p EXCEPT !.points = [i \in 1 .. Len(p.points) |->
                          IF p.points[i].id \notin p.selection THEN p.points[i]
                          ELSE [p.points[i] EXCEPT !.x = clampValue(
                                   snapValue(p.points[i].x + clampedDelta,
                                             snapEnabled, precision),
                                   domain)]]]
                 ELSE [p EXCEPT !.points = [i \in 1 .. Len(p.points) |->
                          IF p.points[i].id \notin p.selection THEN p.points[i]
                          ELSE [p.points[i] EXCEPT !.y = clampValue(
                                   snapValue(p.points[i].y + delta,
                                             snapEnabled, precision),
                                   domain)]]]

-----------------------------------------------------------------------------
(* Specification SpecSide: the commits of the side bar and of the data     *)
(* panel on one plot.                                                      *)

\* three neighbouring points, snapping off
SeedN ==
    MkPlot(<<Pt(<<"p", 1>>, -3, 0), Pt(<<"p", 2>>, -2, 1),
             Pt(<<"p", 3>>, -1, 0)>>,
           <<-4, 4>>, <<-1, 1>>, FALSE, FALSE, 1, 1)

SideSeeds == {SeedN, SeedD}

\* what parseFloat makes of the text of a domain field
DomainValues == {NaN, Num(-5), Num(0), Num(3)}

\* what parseFloat makes of the text of a step field
StepValues == {NaN, Num(0), Num(-1), Num(3)}

\* the numbers typed into a coordinate field
CoordValues == {-3, 0, 2}

Axes == {"x", "y"}

InitSide ==
    /\ \E seed \in SideSeeds :
          \E ids \in SUBSET Ids(seed.points) :
              plot = [seed EXCEPT !.selection = ids]
    /\ dragState = NoDrag
    /\ AppIdle
    /\ uuidCounter = 0
    /\ pointIdCounter = 0
    /\ events = 0
    /\ last = [op |-> "none", before |-> plot, incoming |-> <<>>,
               prevOp |-> "none", prevBefore |-> plot]
    /\ snapIn = <<0, FALSE, Num(1)>>
    /\ snapOut = [done |-> FALSE, result |-> 0]

SideStep(op, next, input) ==
    /\ events < MaxSideEvents
    /\ events' = events + 1
    /\ plot' = next
    /\ last' = Obs(op, plot, input)
    /\ UNCHANGED <<uuidCounter, pointIdCounter, snapVars, dragVars, appVars>>

CommitDomain ==
    \E axis \in Axes, index \in {0, 1}, value \in DomainValues :
        SideStep("commitDomain", commitDomain(plot, axis, index, value),
                 <<axis, index, value>>)

SnapToggle ==
    \E axis \in Axes :
        SideStep("snapToggle",
                 handleSnapToggle(plot, axis,
                     IF axis = "x" THEN ~plot.snapX ELSE ~plot.snapY),
                 <<axis>>)

CommitSnapPrecision ==
    \E axis \in Axes, value \in StepValues :
        SideStep("commitSnapPrecision",
                 commitSnapPrecision(plot, axis, value), <<axis, value>>)

CommitCoord ==
    \E axis \in Axes, val \in CoordValues :
        /\ coordExact(plot, axis, val)
        /\ SideStep("commitCoord", commitCoord(plot, axis, val),
                    <<axis, val>>)

SideNormalize ==
    \E next \in handleNormalize(plot) :
        SideStep("normalize", next, <<>>)

NextSide ==
    \/ CommitDomain
    \/ SnapToggle
    \/ CommitSnapPrecision
    \/ CommitCoord
    \/ SideNormalize

SpecSide == InitSide /\ [][NextSide]_vars

\* C11: after any sequence of domain commits, domainX and domainY of the
\* plot satisfy min < max.
C11_DomainWellFormed ==
    /\ plot.domainX[1] < plot.domainX[2]
    /\ plot.domainY[1] < plot.domainY[2]

\* C18: normalize on a plot with at least 2 points, min < max domainX and a
\* positive snapPrecisionX of any size leaves samples one snap step apart,
\* the first at domainX min and the last at domainX max, x strictly
\* increasing, every y inside domainY, and no selection and no brush.
\* (Stated for plots whose domainY is min < max as well, so that "inside
\* domainY" has a meaning.)
C18_NormalizeEvenSamples ==
    LET b == last.before
        pts == plot.points
    IN  ( /\ last.op = "normalize"
          /\ Len(b.points) >= 2
          /\ b.domainX[1] < b.domainX[2]
          /\ b.domainY[1] < b.domainY[2]
          /\ IsPositive(b.snapPrecisionX) ) =>
            /\ pts[1].x = b.domainX[1]
            /\ pts[Len(pts)].x = b.domainX[2]
            /\ \A i \in 1 .. Len(pts) - 1 :
                  pts[i + 1].x - pts[i].x = b.snapPrecisionX.v
            /\ \A i \in 1 .. Len(pts) : InDomain(pts[i].y, b.domainY)
            /\ plot.selection = {}
            /\ plot.brush = <<>>

\* C19: committing an X coordinate for the selection (one or several
\* selected points, contiguous or not, snap on or off) on an x-ascending
\* array never moves a selected point past an unselected point, and the
\* committed array is still x-ascending.
C19_MoveSelectionRespectsNeighbors ==
    LET b == last.before.points
        a == plot.points
        sel == last.before.selection
    IN  ( /\ last.op = "commitCoord"
          /\ last.incoming[1] = "x"
          /\ IsAscending(b) ) =>
            /\ IsAscending(a)
            /\ \A i, j \in 1 .. Len(b) :
                  (b[i].id \in sel /\ b[j].id \notin sel /\ b[i].x < b[j].x)
                      => a[i].x <= a[j].x
            /\ \A i, j \in 1 .. Len(b) :
                  (b[i].id \in sel /\ b[j].id \notin sel /\ b[i].x > b[j].x)
                      => a[i].x >= a[j].x

-----------------------------------------------------------------------------
(* Specification SpecApp: the application.  Every action is one user       *)
(* event; the component is rendered again between two events, so a handler *)
(* reads the state the previous event left.                                *)

\* observation: the event handled last, with the history as it was before
\* the event; `gesture` is the undo stack as it was when the gesture the
\* event belongs to began (a gesture is a run of transient updates and the
\* commit that ends it); `prev` is the event before it
AppObs(op, kind) ==
    [op |-> op, kind |-> kind,
     prev |-> [op |-> last.op, kind |-> last.kind],
     gesture |-> IF last.kind = "transient" THEN last.gesture ELSE past,
     past |-> past, future |-> future, state |-> state,
     base |-> historyBase, seen |-> state, input |-> <<>>]

\* an event of the pointer captured by a drag
AppDragStep(op, kind) ==
    /\ events < MaxAppEvents
    /\ events' = events + 1
    /\ last' = AppObs(op, kind)
    /\ UNCHANGED <<plot, snapVars, lastCopied, pasting>>

\* an event outside a drag
AppStep(op, kind) ==
    /\ ~dragState.active
    /\ AppDragStep(op, kind)
    /\ UNCHANGED dragVars

\* applyChange(() => dispatch(...)): the state before the change, or the
\* base of the pending transient changes, goes onto the past
Commit(next) ==
    /\ state' = next
    /\ past' = recordChange(past, snapshot(historyBase, state))
    /\ future' = <<>>
    /\ historyBase' = Null

\* a transient change that records a snapshot like a commit
Transient_recording(next) ==
    /\ state' = next
    /\ past' = recordChange(past, state)
    /\ historyBase' = IF historyBase = Null THEN <<state>> ELSE historyBase
    /\ UNCHANGED future

\* dispatchTransient: the first transient change keeps the state as base
Transient(next) ==
    /\ state' = next
    /\ historyBase' = IF historyBase = Null THEN <<state>> ELSE historyBase
    /\ UNCHANGED <<past, future>>

\* updatePlot followed by updatePlotTransient in one handler of the Plot
\* component: the transient dispatch comes after applyChange has cleared
\* the base and reads the state of the last render
CommitThenTransient(next) ==
    /\ state' = next
    /\ past' = recordChange(past, snapshot(historyBase, state))
    /\ future' = <<>>
    /\ historyBase' = <<state>>

AddPlot ==
    LET action == [type |-> "plot/add"]
    IN  /\ AppStep("AddPlot", "commit")
        /\ Commit(reducer(state, action, idCounter))
        /\ idCounter' = idCounter + idsDrawn(state, action)
        /\ UNCHANGED <<uuidCounter, pointIdCounter>>

DuplicatePlot ==
    \E i \in 1 .. Len(state.plots) :
        LET action == [type |-> "plot/duplicate", id |-> state.plots[i].id]
        IN  /\ AppStep("DuplicatePlot", "commit")
            /\ Commit(reducer(state, action, idCounter))
            /\ idCounter' = idCounter + idsDrawn(state, action)
            /\ UNCHANGED <<uuidCounter, pointIdCounter>>

\* the plot is removed and the active id is left as it was
RemovePlot_keepActive ==
    \E i \in 1 .. Len(state.plots) :
        /\ AppStep("RemovePlot", "commit")
        /\ Commit([reducer(state, [type |-> "plot/remove",
                                   id |-> state.plots[i].id], idCounter)
                       EXCEPT !.activePlotId = state.activePlotId])
        /\ UNCHANGED <<idCounter, uuidCounter, pointIdCounter>>

RemovePlot ==
    \E i \in 1 .. Len(state.plots) :
        /\ AppStep("RemovePlot", "commit")
        /\ Commit(reducer(state, [type |-> "plot/remove",
                                  id |-> state.plots[i].id], idCounter))
        /\ UNCHANGED <<idCounter, uuidCounter, pointIdCounter>>

SetActive ==
    \E i \in 1 .. Len(state.plots) :
        /\ state.plots[i].id # state.activePlotId
        /\ AppStep("SetActive", "other")
        /\ state' = reducer(state, [type |-> "app/set-active",
                                    id |-> state.plots[i].id], idCounter)
        /\ UNCHANGED <<past, future, historyBase, idCounter, uuidCounter,
                       pointIdCounter>>

\* a brush over the x range [a, b] selects the points inside it
BrushSelect ==
    /\ hasActivePlot(state)
    /\ LET p == activePlot(state)
       IN  \E a \in Xs(p.points), b \in Xs(p.points) :
              /\ a <= b
              /\ AppStep("BrushSelect", "transient")
              /\ Transient(replacePlot(state,
                    [p EXCEPT !.selection =
                                {p.points[i].id : i \in
                                    {j \in 1 .. Len(p.points) :
                                        a <= p.points[j].x
                                            /\ p.points[j].x <= b}},
                              !.brush = <<>>]))
              /\ UNCHANGED <<idCounter, uuidCounter, pointIdCounter>>

\* "Normalize to domain" of the data panel
Normalize ==
    /\ hasActivePlot(state)
    /\ \E next \in handleNormalize(activePlot(state)) :
          /\ AppStep("Normalize", "commit")
          /\ Commit(replacePlot(state, next))
          /\ UNCHANGED <<idCounter, uuidCounter, pointIdCounter>>

AppDoubleClickBackground ==
    \E x \in AddXs, y \in AddYs :
        /\ hasActivePlot(state)
        /\ AppStep("AppDoubleClickBackground", "commit")
        /\ CommitThenTransient(replacePlot(state,
              handleDoubleClickBackground(activePlot(state), pointIdCounter,
                                          x, y)))
        /\ pointIdCounter' = pointIdCounter + 1
        /\ UNCHANGED <<idCounter, uuidCounter>>

AppDoubleClickPoint ==
    /\ hasActivePlot(state)
    /\ Len(activePlot(state).points) > MIN_POINTS
    /\ \E id \in Ids(activePlot(state).points) :
          /\ AppStep("AppDoubleClickPoint", "commit")
          /\ CommitThenTransient(replacePlot(state,
                handleDoubleClickPoint(activePlot(state), id)))
          /\ UNCHANGED <<idCounter, uuidCounter, pointIdCounter>>

\* updateActivePlot(updater) for an updater that draws `made` UUIDs
UpdateActivePlot(op, next, made) ==
    /\ hasActivePlot(state)
    /\ AppStep(op, "commit")
    /\ Commit(replacePlot(state, next))
    /\ uuidCounter' = uuidCounter + made
    /\ UNCHANGED <<idCounter, pointIdCounter>>

AppDeleteSelection ==
    /\ hasActivePlot(state)
    /\ UpdateActivePlot("AppDeleteSelection",
                        handleDeleteSelection(activePlot(state)), 0)

\* the mirror buttons are enabled with two or more points selected
AppMirror ==
    \E direction \in {"left", "right"} :
        /\ hasActivePlot(state)
        /\ Cardinality(activePlot(state).selection) > 1
        /\ LET p == activePlot(state)
               r == mirrorSelection(p.points, p.selection, uuidCounter,
                                    direction)
           IN  UpdateActivePlot("AppMirror", Merge(p, r), r.made)

\* the duplicate buttons are enabled with a point selected; Ctrl+D and
\* Ctrl+Shift+D reach the handlers with any selection
AppDuplicate ==
    \E direction \in {"left", "right"} :
        /\ hasActivePlot(state)
        /\ LET p == activePlot(state)
               r == IF direction = "left"
                    THEN duplicateSelectionLeft(p.points, p.selection,
                                                uuidCounter)
                    ELSE duplicateSelectionRight(p.points, p.selection,
                                                 uuidCounter)
           IN  UpdateActivePlot("AppDuplicate", Merge(p, r), r.made)

\* Ctrl+C: the selected points of the active plot go to the clipboard and
\* to lastCopiedRef
AppCopy ==
    /\ hasActivePlot(state)
    /\ Selected(activePlot(state).points, activePlot(state).selection) # <<>>
    /\ ~dragState.active
    /\ events < MaxAppEvents
    /\ events' = events + 1
    /\ last' = AppObs("AppCopy", "none")
    /\ lastCopied' = [i \in 1 .. Len(Selected(activePlot(state).points,
                                              activePlot(state).selection)) |->
                         LET q == Selected(activePlot(state).points,
                                           activePlot(state).selection)[i]
                         IN  Plain(q.x, q.y)]
    /\ UNCHANGED <<plot, snapVars, dragVars, pasting, state, past, future,
                   historyBase, idCounter, uuidCounter, pointIdCounter>>

\* Ctrl+V, up to the await: without an active plot or a selection the
\* handler returns; else it keeps lastCopiedRef.current and waits for the
\* clipboard, holding the state of the render it was made in
AppPasteRequest ==
    /\ ~dragState.active
    /\ pasting = Null
    /\ events < MaxAppEvents
    /\ events' = events + 1
    /\ last' = AppObs("AppPasteRequest", "none")
    /\ pasting' = IF hasActivePlot(state)
                  THEN IF activePlot(state).selection # {}
                       THEN <<[state |-> state, incoming |-> lastCopied]>>
                       ELSE Null
                  ELSE Null
    /\ UNCHANGED <<plot, snapVars, dragVars, lastCopied, state, past, future,
                   historyBase, idCounter, uuidCounter, pointIdCounter>>

\* what navigator.clipboard.readText and parsePointsFromClipboard give: the
\* read fails, or the text parses to a list (empty when it is no point list)
ClipboardReads ==
    {[ok |-> FALSE, parsed |-> <<>>]}
        \cup {[ok |-> TRUE, parsed |-> incoming] : incoming \in Incomings}

\* the clipboard is the only source: without a parsed list nothing is pasted
pasteIncoming_noFallback(fallback, read) ==
    IF read.ok THEN read.parsed ELSE <<>>

\* the list handlePaste goes on with
pasteIncoming(fallback, read) ==
    IF read.ok /\ read.parsed # <<>> THEN read.parsed ELSE fallback

\* Ctrl+V, after the await: updateActivePlot and applyChange are those of
\* the render the handler was made in, so the updater is applied to the
\* active plot of that render and the snapshot is its state
AppPasteResolve ==
    /\ pasting # Null
    /\ \E read \in ClipboardReads :
          LET seen == pasting[1].state
              incoming == pasteIncoming(pasting[1].incoming, read)
              p == activePlot(seen)
              r == replaceSelectionWithPoints(p.points, p.selection,
                       incoming, p.domainX, p.domainY, uuidCounter)
              obs(kind) == [AppObs("AppPasteResolve", kind) EXCEPT
                               !.seen = seen,
                               !.input = [read |-> read,
                                          fallback |-> pasting[1].incoming]]
          IN  /\ events < MaxAppEvents
              /\ events' = events + 1
              /\ pasting' = Null
              /\ IF incoming = <<>>
                 THEN /\ last' = obs("none")
                      /\ UNCHANGED <<state, past, future, historyBase,
                                     uuidCounter>>
                 ELSE /\ last' = obs("commit")
                      /\ state' = replacePlot(state, Merge(p, r))
                      /\ past' = recordChange(past,
                                              snapshot(historyBase, seen))
                      /\ future' = <<>>
                      /\ historyBase' = Null
                      /\ uuidCounter' = uuidCounter + r.made
              /\ UNCHANGED <<plot, snapVars, dragVars, lastCopied, idCounter,
                             pointIdCounter>>

\* pointer down on a point of the active plot
AppStartDrag ==
    /\ hasActivePlot(state)
    /\ \E id \in Ids(activePlot(state).points), withModifier \in BOOLEAN :
          LET p == activePlot(state)
          IN  /\ AppDragStep("AppStartDrag",
                    IF id \in p.selection /\ ~withModifier THEN "none"
                    ELSE "transient")
              /\ ~dragState.active
              /\ dragState' = startDragState(p, id)
              /\ IF id \in p.selection /\ ~withModifier
                 THEN UNCHANGED <<state, past, future, historyBase>>
                 ELSE Transient(replacePlot(state,
                          startDragPlot(p, id, withModifier)))
              /\ UNCHANGED <<idCounter, uuidCounter, pointIdCounter>>

\* the plot of the Plot component that holds the drag
draggedPlot == state.plots[findPlot(state.plots, dragState.plot)]

\* pointer move over the captured point
AppPointMove ==
    /\ dragState.active
    /\ \E d \in DragDeltas :
          /\ AppDragStep("AppPointMove", "transient")
          /\ Transient(replacePlot(state,
                handlePointMove(draggedPlot, dragState, d[1], d[2])))
          /\ UNCHANGED <<dragState, idCounter, uuidCounter, pointIdCounter>>

\* pointer up: onChange(plotRef.current)
AppEndDrag ==
    /\ dragState.active
    /\ AppDragStep("AppEndDrag", "commit")
    /\ Commit(replacePlot(state, draggedPlot))
    /\ dragState' = NoDrag
    /\ UNCHANGED <<idCounter, uuidCounter, pointIdCounter>>

\* the shortcuts reach the handlers during a drag too; the Plot component
\* of a plot that leaves the state is unmounted and its drag ends with it
dragAfter(st) ==
    IF dragState.active /\ findPlot(st.plots, dragState.plot) = 0
    THEN NoDrag ELSE dragState

\* redo that does not put the current state back onto the past
Redo_noPush ==
    IF future = <<>>
    THEN /\ AppDragStep("Redo", "none")
         /\ UNCHANGED <<state, past, future, historyBase, idCounter,
                        uuidCounter, pointIdCounter, dragState>>
    ELSE /\ AppDragStep("Redo", "other")
         /\ future' = SubSeq(future, 1, Len(future) - 1)
         /\ state' = reducer(state, [type |-> "app/replace-state",
                                     state |-> future[Len(future)]], idCounter)
         /\ historyBase' = Null
         /\ UNCHANGED <<past, idCounter, uuidCounter, pointIdCounter>>
         /\ dragState' = dragAfter(state')

\* undo: without a snapshot on the past the handler returns
Undo ==
    IF past = <<>>
    THEN /\ AppDragStep("Undo", "none")
         /\ UNCHANGED <<state, past, future, historyBase, idCounter,
                        uuidCounter, pointIdCounter, dragState>>
    ELSE /\ AppDragStep("Undo", "other")
         /\ past' = SubSeq(past, 1, Len(past) - 1)
         /\ future' = Append(future, state)
         /\ state' = reducer(state, [type |-> "app/replace-state",
                                     state |-> past[Len(past)]], idCounter)
         /\ historyBase' = Null
         /\ UNCHANGED <<idCounter, uuidCounter, pointIdCounter>>
         /\ dragState' = dragAfter(state')

\* redo: without a snapshot on the future the handler returns
Redo ==
    IF future = <<>>
    THEN /\ AppDragStep("Redo", "none")
         /\ UNCHANGED <<state, past, future, historyBase, idCounter,
                        uuidCounter, pointIdCounter, dragState>>
    ELSE /\ AppDragStep("Redo", "other")
         /\ future' = SubSeq(future, 1, Len(future) - 1)
         /\ past' = Append(past, state)
         /\ state' = reducer(state, [type |-> "app/replace-state",
                                     state |-> future[Len(future)]], idCounter)
         /\ historyBase' = Null
         /\ UNCHANGED <<idCounter, uuidCounter, pointIdCounter>>
         /\ dragState' = dragAfter(state')

InitApp ==
    /\ AppIdle
    /\ plot = SeedA
    /\ dragState = NoDrag
    /\ uuidCounter = 0
    /\ pointIdCounter = 0
    /\ events = 0
    /\ last = [op |-> "none", kind |-> "other", prev |-> [op |-> "none", kind |-> "other"],
               gesture |-> <<>>,
               past |-> <<>>, future |-> <<>>, state |-> state,
               base |-> Null, seen |-> state, input |-> <<>>]
    /\ snapIn = <<0, FALSE, Num(1)>>
    /\ snapOut = [done |-> FALSE, result |-> 0]

NextApp ==
    \/ AddPlot
    \/ DuplicatePlot
    \/ RemovePlot
    \/ SetActive
    \/ BrushSelect
    \/ Normalize
    \/ AppDoubleClickBackground
    \/ AppDoubleClickPoint
    \/ AppDeleteSelection
    \/ AppMirror
    \/ AppDuplicate
    \/ AppCopy
    \/ AppPasteRequest
    \/ AppPasteResolve
    \/ AppStartDrag
    \/ AppPointMove
    \/ AppEndDrag
    \/ Undo
    \/ Redo

SpecApp == InitApp /\ [][NextApp]_vars

\* `after` is `before` with exactly one snapshot pushed; a stack that is
\* full loses its oldest snapshot to make room
PushedOne(before, after) ==
    IF Len(before) < HISTORY_LIMIT
    THEN /\ Len(after) = Len(before) + 1
         /\ SubSeq(after, 1, Len(before)) = before
    ELSE /\ Len(after) = Len(before)
         /\ SubSeq(after, 1, Len(after) - 1) = Tail(before)

-----------------------------------------------------------------------------
(* Specification SpecClip: the application from the states the launch and  *)
(* a first brush selection leave; copy and paste need a selection.         *)

\* the state after the brush over [a, b] on the default plot
Brushed(a, b) ==
    LET p == activePlot(makeInitialState(1))
    IN  replacePlot(makeInitialState(1),
            [p EXCEPT !.selection =
                        {p.points[i].id : i \in
                            {j \in 1 .. Len(p.points) :
                                a <= p.points[j].x /\ p.points[j].x <= b}}])

InitClip ==
    /\ \/ /\ state = makeInitialState(1)
          /\ historyBase = Null
          /\ last = [op |-> "none", kind |-> "other", prev |-> [op |-> "none", kind |-> "other"],
               gesture |-> <<>>,
                     past |-> <<>>, future |-> <<>>, state |-> state,
                     base |-> Null, seen |-> state, input |-> <<>>]
       \/ \E a, b \in Xs(activePlot(makeInitialState(1)).points) :
              /\ a <= b
              /\ state = Brushed(a, b)
              /\ historyBase = <<makeInitialState(1)>>
              /\ last = [op |-> "BrushSelect", kind |-> "transient",
                         prev |-> [op |-> "none", kind |-> "other"], gesture |-> <<>>, past |-> <<>>, future |-> <<>>,
                         state |-> makeInitialState(1), base |-> Null,
                         seen |-> makeInitialState(1), input |-> <<>>]
    /\ idCounter = 2 + DEFAULT_POINT_COUNT
    /\ past = <<>>
    /\ future = <<>>
    /\ lastCopied = Null
    /\ pasting = Null
    /\ plot = SeedA
    /\ dragState = NoDrag
    /\ uuidCounter = 0
    /\ pointIdCounter = 0
    /\ events = 0
    /\ snapIn = <<0, FALSE, Num(1)>>
    /\ snapOut = [done |-> FALSE, result |-> 0]

SpecClip == InitClip /\ [][NextApp]_vars

\* the plot a pending paste was requested on, as it is now
PastedPlot == state.plots[findPlot(state.plots, activePlot(last.seen).id)]

\* C20: when the clipboard read fails or its text does not parse to a
\* non-empty point list, paste goes on with the last-copied points if there
\* are any; when there is no last-copied value either, or the active plot
\* has no selection, paste changes neither the application state nor the
\* undo history.
C20_PasteFallback ==
    /\ last.op = "AppPasteRequest" =>
          /\ state = last.state /\ past = last.past /\ future = last.future
          /\ (~hasActivePlot(last.state)
                \/ ~(activePlot(last.state).selection # {}))
                => pasting = Null
    /\ (last.op = "AppPasteResolve"
          /\ (~last.input.read.ok \/ last.input.read.parsed = <<>>)) =>
          IF last.input.fallback = <<>>
          THEN state = last.state /\ past = last.past /\ future = last.future
          ELSE /\ hasActivePlot(last.seen)
               /\ findPlot(state.plots, activePlot(last.seen).id) # 0
                     => LET p == activePlot(last.seen)
                            fallback == last.input.fallback
                        IN  IF Selected(p.points, p.selection) = <<>>
                            THEN PastedPlot = p
                            ELSE PastedPlot
                                   = handlePaste(p, fallback,
                                         uuidCounter - Len(fallback))

\* the clipboard read failed and the paste of the last-copied points
\* replaced points of the active plot
C20_Witness ==
    /\ last.op = "AppPasteResolve"
    /\ ~last.input.read.ok
    /\ last.input.fallback # <<>>
    /\ state # last.state
    /\ Len(past) = Len(last.past) + 1

C8_PointIdsUnique ==
    \A i, j \in 1 .. Len(state.plots) :
        \A k \in 1 .. Len(state.plots[i].points) :
            \A m \in 1 .. Len(state.plots[j].points) :
                state.plots[i].points[k].id = state.plots[j].points[m].id
                    => (i = j /\ k = m)

-----------------------------------------------------------------------------
(* Specification SpecReducer: actions dispatched to the reducer, with ids  *)
(* of plots the state holds and with an id it does not hold.               *)

\* the id of a plot that is not in the state
UnknownPlotId == <<"p", 0>>

\* the actions dispatched on st
ReducerActions(st) ==
    LET ids == {st.plots[i].id : i \in 1 .. Len(st.plots)}
                  \cup {UnknownPlotId}
    IN  {[type |-> "plot/add"]}
        \cup {[type |-> "plot/duplicate", id |-> id] : id \in ids}
        \cup {[type |-> "plot/remove", id |-> id] : id \in ids}
        \cup {[type |-> "app/set-active", id |-> id] :
                 id \in (ids \ {UnknownPlotId}) \cup {Null}}
        \cup {[type |-> "plot/replace",
               plot |-> [st.plots[i] EXCEPT
                            !.selection = Ids(st.plots[i].points)]] :
                 i \in 1 .. Len(st.plots)}
        \cup {[type |-> "plot/replace",
               plot |-> [makePlot(1) EXCEPT !.id = UnknownPlotId]]}

Dispatch ==
    \E action \in ReducerActions(state) :
        /\ events < MaxAppEvents
        /\ events' = events + 1
        /\ state' = reducer(state, action, idCounter)
        /\ idCounter' = idCounter + idsDrawn(state, action)
        /\ last' = [AppObs("dispatch", "other") EXCEPT !.input = action]
        /\ UNCHANGED <<plot, uuidCounter, pointIdCounter, snapVars, dragVars,
                       past, future, historyBase, lastCopied, pasting>>

SpecReducer == InitApp /\ [][Dispatch]_vars

\* the ids of the plots of a state
PlotIds(st) == {st.plots[i].id : i \in 1 .. Len(st.plots)}

\* C21: plot/duplicate of an existing plot appends one plot with a new plot
\* id, the source's point coordinates in the same order each under a fresh
\* point id distinct from every id of the source, the same domains and snap
\* settings, an empty selection and a null brush; the copy becomes the
\* active plot and every existing plot is unchanged.  plot/duplicate of an
\* unknown id returns the state unchanged.
C21_PlotDuplicate ==
    (last.op = "dispatch" /\ last.input.type = "plot/duplicate") =>
        LET n == Len(last.state.plots)
            i == findPlot(last.state.plots, last.input.id)
        IN  IF i = 0 THEN state = last.state
            ELSE LET source == last.state.plots[i]
                     clone == state.plots[n + 1]
                 IN  /\ Len(state.plots) = n + 1
                     /\ SubSeq(state.plots, 1, n) = last.state.plots
                     /\ clone.id \notin PlotIds(last.state)
                     /\ Coords(clone.points) = Coords(source.points)
                     /\ Cardinality(Ids(clone.points)) = Len(source.points)
                     /\ Ids(clone.points) \cap Ids(source.points) = {}
                     /\ clone.id \notin Ids(source.points)
                     /\ clone.domainX = source.domainX
                     /\ clone.domainY = source.domainY
                     /\ clone.snapX = source.snapX
                     /\ clone.snapY = source.snapY
                     /\ clone.snapPrecisionX = source.snapPrecisionX
                     /\ clone.snapPrecisionY = source.snapPrecisionY
                     /\ clone.selection = {}
                     /\ clone.brush = <<>>
                     /\ state.activePlotId = clone.id

\* a plot with selected points, not the active one, has been duplicated
C21_Witness ==
    /\ last.op = "dispatch" /\ last.input.type = "plot/duplicate"
    /\ findPlot(last.state.plots, last.input.id) # 0
    /\ last.state.plots[findPlot(last.state.plots,
                                 last.input.id)].selection # {}
    /\ last.state.activePlotId # last.input.id
    /\ Len(state.plots) = Len(last.state.plots) + 1

-----------------------------------------------------------------------------
(* The path of the monotone curve (monotone.ts).  Coordinates are integers; *)
(* a slope or a control coordinate is an exact fraction <<n, d>> with       *)
(* d > 0, and "NaN" stands for the not-yet-computed tangent.  The points    *)
(* are taken with strictly increasing x, so that no interval has width 0,   *)
(* and the scales are the identity.                                         *)

\* largest number of points of a path under test; x runs over 0 .. MaxPathLen - 1
MaxPathLen == 4

\* the y values of the points of a path under test
PathYs == 0 .. 2

AbsInt(n) == IF n < 0 THEN -n ELSE n

\* the smaller of two fractions
FracMin(a, b) == IF a[1] * b[2] <= b[1] * a[2] THEN a ELSE b

sign(x) == IF x[1] < 0 THEN -1 ELSE 1

\* the tangent is the weighted mean of the two secants, whatever their signs
slope3_mean(st, x2, y2) ==
    LET h0 == st.x1 - st.x0
        h1 == x2 - st.x1
    IN  <<(st.y1 - st.y0) * h1 * h1 + (y2 - st.y1) * h0 * h0,
          h0 * h1 * (h0 + h1)>>

\* the tangent at (_x1, _y1) from the secants to its two neighbours
slope3(st, x2, y2) ==
    LET h0 == st.x1 - st.x0
        h1 == x2 - st.x1
        s0 == <<st.y1 - st.y0, h0>>
        s1 == <<y2 - st.y1, h1>>
        pp == <<s0[1] * h1 * h1 + s1[1] * h0 * h0, h0 * h1 * (h0 + h1)>>
        m == FracMin(FracMin(<<AbsInt(s0[1]), h0>>, <<AbsInt(s1[1]), h1>>),
                     <<AbsInt(pp[1]), 2 * pp[2]>>)
    IN  <<(sign(s0) + sign(s1)) * m[1], m[2]>>

\* the one-sided tangent at an end point
slope2(st, t) ==
    LET h == st.x1 - st.x0
    IN  IF h # 0
        THEN <<3 * (st.y1 - st.y0) * t[2] - t[1] * h, 2 * h * t[2]>>
        ELSE t

\* bezierCurveTo for the interval from (_x0, _y0) to (_x1, _y1)
bezierCurveTo(st, t0, t1) ==
    LET w == st.x1 - st.x0
    IN  [op |-> "C",
         c1 |-> <<(<<3 * st.x0 + w, 3>>),
                  (<<st.y0 * 3 * t0[2] + w * t0[1], 3 * t0[2]>>)>>,
         c2 |-> <<(<<3 * st.x1 - w, 3>>),
                  (<<st.y1 * 3 * t1[2] - w * t1[1], 3 * t1[2]>>)>>,
         to |-> <<st.x1, st.y1>>]

\* the for loop of buildMonotonePath from point i on; curve is the
\* MonotoneX object, parts the commands emitted so far
RECURSIVE pathLoop(_, _, _, _, _)
pathLoop(pts, i, curve, tPrev, parts) ==
    IF i > Len(pts)
    THEN IF curve.point = 2
         THEN Append(parts, [op |-> "L", to |-> <<curve.x1, curve.y1>>])
         ELSE IF curve.point = 3
         THEN Append(parts, bezierCurveTo(curve, curve.t0,
                                          slope2(curve, curve.t0)))
         ELSE parts
    ELSE
    LET q == pts[i]
    IN  IF i = 1
        THEN pathLoop(pts, 2,
                 [x0 |-> q.x, x1 |-> q.x, y0 |-> q.y, y1 |-> q.y,
                  t0 |-> "NaN", point |-> 1],
                 tPrev, Append(parts, [op |-> "M", to |-> <<q.x, q.y>>]))
        ELSE IF i = 2
        THEN pathLoop(pts, 3,
                 [x0 |-> pts[1].x, x1 |-> q.x, y0 |-> pts[1].y, y1 |-> q.y,
                  t0 |-> "NaN", point |-> 2],
                 tPrev, parts)
        ELSE LET tFirst == IF tPrev = "NaN"
                           THEN slope2(curve, slope3(curve, q.x, q.y))
                           ELSE tPrev
                 t1 == slope3(curve, q.x, q.y)
             IN  pathLoop(pts, i + 1,
                     [x0 |-> curve.x1, x1 |-> q.x, y0 |-> curve.y1,
                      y1 |-> q.y, t0 |-> t1, point |-> curve.point],
                     t1, Append(parts, bezierCurveTo(curve, tFirst, t1)))

\* the commands of the path string, in order
buildMonotonePath(pts) ==
    IF Len(pts) = 0 THEN <<>>
    ELSE IF Len(pts) = 1
    THEN <<[op |-> "M", to |-> <<pts[1].x, pts[1].y>>]>>
    ELSE pathLoop(pts, 1,
                  [x0 |-> "NaN", x1 |-> "NaN", y0 |-> "NaN", y1 |-> "NaN",
                   t0 |-> "NaN", point |-> 0],
                  "NaN", <<>>)

\* the point lists of at most n points with x ascending from xs
RECURSIVE PathInputs(_, _)
PathInputs(n, x) ==
    IF n = 0 \/ x >= MaxPathLen THEN {<<>>}
    ELSE PathInputs(n, x + 1)
            \cup {<<Plain(x, y)>> \o rest :
                     y \in PathYs, rest \in PathInputs(n - 1, x + 1)}

-----------------------------------------------------------------------------
(* Specification SpecPath: buildMonotonePath applied once to a point list  *)
(* with strictly increasing x.                                             *)

InitPath ==
    /\ \E pts \in PathInputs(MaxPathLen, 0) :
          snapIn = pts
    /\ snapOut = [done |-> FALSE, result |-> <<>>]
    /\ GeomIdle

BuildPath ==
    /\ ~snapOut.done
    /\ snapOut' = [done |-> TRUE, result |-> buildMonotonePath(snapIn)]
    /\ UNCHANGED <<snapIn, geomVars, dragVars, appVars>>

SpecPath == InitPath /\ [][BuildPath]_vars

\* C23: for n >= 3 points with distinct x the path is a move to the first
\* point followed by exactly n - 1 cubic Bezier segments, one per pair of
\* consecutive points, the last pair included, the segment of the pair
\* (k, k + 1) ending at point k + 1; for 0 points the path is empty and for
\* 1 point it is a single move to that point.
C23_PathIsBezierSegments ==
    snapOut.done =>
        LET pts == snapIn
            n == Len(pts)
            path == snapOut.result
        IN  /\ n = 0 => path = <<>>
            /\ n = 1 => path = <<[op |-> "M", to |-> <<pts[1].x, pts[1].y>>]>>
            /\ n >= 3 =>
                  /\ Len(path) = n
                  /\ path[1] = [op |-> "M", to |-> <<pts[1].x, pts[1].y>>]
                  /\ \A k \in 2 .. n :
                        /\ path[k].op = "C"
                        /\ path[k].to = <<pts[k].x, pts[k].y>>

\* the example of the tangent rule
PlateauPoints == <<Plain(0, 0), Plain(1, 1), Plain(2, 1), Plain(3, 0)>>

\* the y of every control point and end point of the path lies in [lo, hi]
PathWithin(path, lo, hi) ==
    \A k \in 1 .. Len(path) :
        /\ lo <= path[k].to[2] /\ path[k].to[2] <= hi
        /\ path[k].op = "C" =>
              \A c \in {path[k].c1[2], path[k].c2[2]} :
                  lo * c[2] <= c[1] /\ c[1] <= hi * c[2]

\* C24: the tangent at an interior point is zero when the two adjacent
\* secant slopes differ in sign or one of them is zero, and has the common
\* sign of the two secants otherwise; for (0,0),(1,1),(2,1),(3,0) the
\* tangents at x = 1 and x = 2 are zero and the curve stays in [0, 1].  The
\* tangent at point k is read from the second control point of the segment
\* that ends at point k: c2.y = y_k - (width / 3) * tangent.
C24_TangentSignRule ==
    snapOut.done =>
        LET pts == snapIn
            path == snapOut.result
        IN  /\ \A k \in 2 .. Len(pts) - 1 :
                  LET d0 == pts[k].y - pts[k - 1].y
                      d1 == pts[k + 1].y - pts[k].y
                      c == path[k].c2[2]
                  IN  IF d0 = 0 \/ d1 = 0 \/ ((d0 > 0) # (d1 > 0))
                      THEN c[1] = pts[k].y * c[2]
                      ELSE IF d0 > 0 THEN c[1] < pts[k].y * c[2]
                      ELSE c[1] > pts[k].y * c[2]
            /\ pts = PlateauPoints => PathWithin(path, 0, 1)

\* the path of the example has been built, with zero tangents at x = 1 and 2
C24_Witness ==
    /\ snapOut.done
    /\ snapIn = PlateauPoints
    /\ snapOut.result[2].c2[2][1] = 1 * snapOut.result[2].c2[2][2]
    /\ snapOut.result[3].c2[2][1] = 1 * snapOut.result[3].c2[2][2]

-----------------------------------------------------------------------------
(* Specification SpecSnap: snapValue applied to inputs from bounded sets *)

SnapPrecisions ==
    {Num(n) : n \in -3 .. 3} \cup {NaN, PosInfinity, NegInfinity}

\* the scalars handed to snapValue: the small integers, and the numbers
\* around the magnitude 2^FloatBits where the spacing of the numbers grows
SnapValues ==
    LET near == (2^FloatBits - 4 * MaxSnapValue) .. (2^FloatBits + 4 * MaxSnapValue)
    IN  (-MaxSnapValue .. MaxSnapValue)
            \cup {v \in near : FlInt(v) = v} \cup {-v : v \in {w \in near : FlInt(w) = w}}

SnapInputs ==
    {<<v, e, p>> : v \in SnapValues, e \in BOOLEAN, p \in SnapPrecisions}

NoSnapOut == [done |-> FALSE, result |-> 0]

InitSnap ==
    /\ snapIn \in SnapInputs
    /\ snapOut = NoSnapOut
    /\ GeomIdle

\* one call snapValue(value, enabled, precision)
SnapCall ==
    /\ ~snapOut.done
    /\ snapOut' = [done |-> TRUE,
                   result |-> snapValue(snapIn[1], snapIn[2], snapIn[3])]
    /\ UNCHANGED <<snapIn, geomVars, dragVars, appVars>>

\* the caller snaps the result again with the same settings
SnapAgain ==
    /\ snapOut.done
    /\ snapOut.result \in SnapValues
    /\ snapIn' = <<snapOut.result, snapIn[2], snapIn[3]>>
    /\ snapOut' = NoSnapOut
    /\ UNCHANGED <<geomVars, dragVars, appVars>>

NextSnap == SnapCall \/ SnapAgain

SpecSnap == InitSnap /\ [][NextSnap]_vars

-----------------------------------------------------------------------------
\* C10: snap(value, enabled, precision) returns value unchanged whenever
\* enabled is false or precision is non-positive or non-finite, and
\* round(value / precision) * precision otherwise.
C10_SnapGating ==
    snapOut.done =>
        snapOut.result =
            IF \/ ~snapIn[2]
               \/ ~IsFinite(snapIn[3])
               \/ snapIn[3].v <= 0
            THEN snapIn[1]
            ELSE MathRound(snapIn[1], snapIn[3].v) * snapIn[3].v

\* the product round(value / precision) * precision of the call is below
\* 2^FloatBits in magnitude, so the multiplication delivers it unrounded
SnapProductExact ==
    LET product == MathRound(snapIn[1], snapIn[3].v) * snapIn[3].v
    IN  /\ product < 2^FloatBits
        /\ -product < 2^FloatBits

\* C25: for any finite value v and positive precision p,
\* snap(snap(v, true, p), true, p) equals snap(v, true, p).
C25_SnapIdempotent ==
    (snapOut.done /\ snapIn[2] /\ IsPositive(snapIn[3])) =>
        snapValue(snapOut.result, TRUE, snapIn[3]) = snapOut.result

\* C25, restricted: for any finite value v and positive precision p such
\* that round(v / p) * p is computed without rounding error,
\* snap(snap(v, true, p), true, p) equals snap(v, true, p).
C25_SnapIdempotentExact ==
    (snapOut.done /\ snapIn[2] /\ IsPositive(snapIn[3]) /\ SnapProductExact) =>
        snapValue(snapOut.result, TRUE, snapIn[3]) = snapOut.result

\* a value off the grid has been snapped onto it without rounding error
C25_Witness ==
    /\ snapOut.done /\ snapIn[2] /\ IsPositive(snapIn[3])
    /\ SnapProductExact
    /\ snapOut.result # snapIn[1]

-----------------------------------------------------------------------------
\* the points of every plot of a state
PointsOf(st) ==
    [i \in 1 .. Len(st.plots) |->
        [id |-> st.plots[i].id, points |-> st.plots[i].points]]

\* C26: after two committed changes c1 then c2 (c1 for example a double
\* click that adds or removes a point, c2 any committed edit following it),
\* a single undo restores the points as they were immediately after c1,
\* that is, as they were when c2 began.
C26_UndoRevertsLastCommit ==
    [][(/\ last'.op = "Undo"
        /\ last.kind = "commit"
        /\ last.prev.kind = "commit")
            => PointsOf(state') = PointsOf(last.state)]_vars

-----------------------------------------------------------------------------
\* C27: paste applies replaceSelectionWithPoints to the plot state that is
\* current when the asynchronous clipboard read completes, so a change
\* committed to the plot, or a switch of the active plot, while the read
\* was pending is still present after the paste.
C27_PasteKeepsConcurrentEdits ==
    LET cur == last.state
        incoming == pasteIncoming(last.input.fallback, last.input.read)
    IN  (last.op = "AppPasteResolve" /\ last.kind = "commit") =>
            IF hasActivePlot(cur)
            THEN \E c \in 0 .. uuidCounter :
                    state = replacePlot(cur,
                                handlePaste(activePlot(cur), incoming, c))
            ELSE state = cur

-----------------------------------------------------------------------------
\* C28: with a non-empty undo stack, an undo immediately followed by a redo
\* restores exactly the application state that was current before the undo
\* and leaves the undo and redo stacks with the contents they had before
\* the undo; undo on an empty undo stack and redo on an empty redo stack
\* change nothing.
C28_UndoRedoRoundTrip ==
    [][/\ (last'.op = "Redo" /\ last.op = "Undo" /\ last.past # <<>>)
            => /\ state' = last.state
               /\ past' = last.past
               /\ future' = last.future
       /\ (last'.op = "Undo" /\ past = <<>>)
            => UNCHANGED <<state, past, future, historyBase>>
       /\ (last'.op = "Redo" /\ future = <<>>)
            => UNCHANGED <<state, past, future, historyBase>>]_vars

\* a redo has followed an undo that changed the state
C28_Witness ==
    /\ last.op = "Redo"
    /\ last.kind = "other"
    /\ last.prev.op = "Undo"
    /\ state # last.state
    /\ past # <<>>

-----------------------------------------------------------------------------
\* C29: a toolbar or keyboard operation that returns the active plot
\* unchanged (mirror with fewer than 2 selected points, duplicate or delete
\* with an empty selection) pushes no undo snapshot and does not clear the
\* redo stack.
C29_NoOpLeavesHistory ==
    ( /\ last.op \in {"AppDeleteSelection", "AppDuplicate", "AppMirror"}
      /\ state = last.state ) =>
            /\ past = last.past
            /\ future = last.future

-----------------------------------------------------------------------------
\* C30: in every state reachable through plot/add, plot/duplicate,
\* plot/remove, plot/replace, set-active on a displayed plot, undo and redo,
\* activePlotId is null or the id of a plot in plots; removing the active
\* plot makes the first remaining plot active, or null when none remain,
\* and removing a non-active plot leaves activePlotId unchanged.
C30_ActivePlotValid ==
    /\ IF state.activePlotId = Null THEN TRUE
       ELSE findPlot(state.plots, state.activePlotId) # 0
    /\ last.op = "RemovePlot" =>
          LET removed == PlotIds(last.state) \ PlotIds(state)
              remaining == SelectSeq(last.state.plots,
                                     LAMBDA q : q.id \notin removed)
          IN  /\ Cardinality(removed) = 1
              /\ state.plots = remaining
              /\ state.activePlotId =
                    IF last.state.activePlotId \in removed
                    THEN (IF remaining = <<>> THEN Null ELSE remaining[1].id)
                    ELSE last.state.activePlotId

\* the active plot of two has been removed and the other one is active
C30_Witness ==
    /\ last.op = "RemovePlot"
    /\ Len(last.state.plots) = 2
    /\ last.state.activePlotId \notin PlotIds(state)
    /\ state.activePlotId = state.plots[1].id

====
